---- MODULE Spec2Model ----
(***************************************************************************)
(* Orbit: content-addressed object store (vos.rs), snapshot pipeline       *)
(* (repo.rs), index (index.rs), status (status.rs), VNP framing (vnp.rs)   *)
(* and the client side of the sync / clone session (main.rs).              *)
(*                                                                         *)
(* Bytes are finite sequences of natural-number tokens.  A serialized      *)
(* structured object is one token for its JSON field skeleton followed by  *)
(* its field values; an object id is one token (the digest).               *)
(***************************************************************************)
EXTENDS Integers, Sequences, FiniteSets, TLC

(***************************************************************************)
(* Bounds of the model.                                                    *)
(***************************************************************************)
MaxTime == 1
MaxSnapshots == 2
MaxEdits == 1
MaxStatus == 1
MaxWriteFailures == 1
MaxSessions == 2
MaxDeviations == 1
MaxAborted == 1
MaxUploads == 1
MaxChunks == 2
MaxReverts == 1
MaxCheckouts == 1

(***************************************************************************)
(* Program constants.                                                      *)
(***************************************************************************)
FILE_MODE == 33188
DIR_MODE == 16384
JsonCommit == 101
JsonTree == 102
JsonFile == 103
AUTHOR == 104
SIG_NONE == 105
MESSAGE == 106
HashSeed == 7
HashMultiplier == 1009
HashModulus == 1000003
CHUNK_SIZE == 8192

\* File names of the working tree and the paths that may hold a regular file.
Names == <<11, 12, 13>>
NameA == Names[1]
NameB == Names[2]
NameD == Names[3]
Paths == {<<NameA>>, <<NameD, NameB>>}
Contents == {<<>>, <<1>>, <<2>>}

Range(s) == {s[i] : i \in DOMAIN s}

EmptyStore == [o \in {} |-> <<>>]

(***************************************************************************)
(* vos.rs: the hasher.  A deterministic digest of the whole byte sequence. *)
(***************************************************************************)
RECURSIVE HashFold(_, _)
HashFold(h, data) ==
  IF data = <<>> THEN h
  ELSE HashFold((h * HashMultiplier + Head(data) + 1) % HashModulus, Tail(data))

hash_data(data) == HashFold(HashSeed, data)

(***************************************************************************)
(* objects.rs: canonical serialization and parsing of File, Directory and  *)
(* Commit.                                                                 *)
(***************************************************************************)
SerializeFile(f) == <<JsonFile, f.root_chunk_id, f.size>>

ParsesAsFile(b) == Len(b) = 3 /\ b[1] = JsonFile

ParseFile(b) == [root_chunk_id |-> b[2], size |-> b[3]]

RECURSIVE FlattenEntries(_)
FlattenEntries(entries) ==
  IF entries = <<>> THEN <<>>
  ELSE <<Head(entries).mode, Head(entries).name, Head(entries).id>>
         \o FlattenEntries(Tail(entries))

SerializeDirectory(entries) == <<JsonTree>> \o FlattenEntries(entries)

ParsesAsDirectory(b) == Len(b) >= 1 /\ b[1] = JsonTree /\ (Len(b) - 1) % 3 = 0

ParseDirectory(b) ==
  [i \in 1..((Len(b) - 1) \div 3) |->
     [mode |-> b[3 * i - 1], name |-> b[3 * i], id |-> b[3 * i + 1]]]

SerializeCommit(c) ==
  <<JsonCommit, c.tree, Len(c.parents)>> \o c.parents
    \o <<c.author, c.timestamp, c.message, c.signature>>

ParsesAsCommit(b) == Len(b) >= 7 /\ b[1] = JsonCommit /\ Len(b) = 7 + b[3]

ParseCommit(b) ==
  [tree |-> b[2], parents |-> SubSeq(b, 4, 3 + b[3]), author |-> b[4 + b[3]],
   timestamp |-> b[5 + b[3]], message |-> b[6 + b[3]], signature |-> b[7 + b[3]]]

hash_object(bytes) == hash_data(bytes)

(***************************************************************************)
(* vos.rs: the object store.  A store is a function from the ids that have *)
(* a file under .orb/objects to the bytes of that file.                    *)
(***************************************************************************)
object_exists_locally(store, object_id) == object_id \in DOMAIN store

\* save_object: the write happens only when no file exists at the path; a
\* failed create_dir_all or write is reported as a warning and the id is
\* returned all the same (write_ok = FALSE).
save_object(store, data, write_ok) ==
  LET object_id == hash_data(data) IN
  IF object_id \in DOMAIN store \/ ~write_ok THEN store
  ELSE [o \in DOMAIN store \cup {object_id} |->
          IF o = object_id THEN data ELSE store[o]]

\* store_object_with_id: writes data at the given id, overwriting.
store_object_with_id(store, object_id, data) ==
  [o \in DOMAIN store \cup {object_id} |->
     IF o = object_id THEN data ELSE store[o]]

\* The save_object calls of one operation, in order; the ids in failed are
\* the writes that do not succeed.
RECURSIVE SaveAll(_, _, _)
SaveAll(store, saved, failed) ==
  IF saved = <<>> THEN store
  ELSE SaveAll(save_object(store, Head(saved), hash_data(Head(saved)) \notin failed),
               Tail(saved), failed)

\* chunk_and_save_file: the file's bytes as one chunk, then the File object.
chunk_and_save_file(file_content) ==
  LET chunk_id == hash_data(file_content)
      file_object == [root_chunk_id |-> chunk_id, size |-> Len(file_content)]
      file_bytes == SerializeFile(file_object)
  IN [file_id |-> hash_object(file_bytes), size |-> Len(file_content),
      saved |-> <<file_content, file_bytes>>]

(***************************************************************************)
(* repo.rs: the snapshot pipeline.  A working tree is a function from the  *)
(* paths of its regular files to [data, mtime]; a directory exists when a  *)
(* file lies below it.  Directory listings are in ascending name order.    *)
(***************************************************************************)
Children(wt, dir) ==
  {p[Len(dir) + 1] :
     p \in {q \in DOMAIN wt : Len(q) > Len(dir) /\ SubSeq(q, 1, Len(dir)) = dir}}

RECURSIVE SortedSeq(_)
SortedSeq(S) ==
  IF S = {} THEN <<>>
  ELSE LET m == CHOOSE x \in S : \A y \in S : x <= y
       IN <<m>> \o SortedSeq(S \ {m})

RECURSIVE traverse_and_save_tree(_, _)
RECURSIVE TraverseEntries(_, _, _)
TraverseEntries(wt, current_path, names) ==
  IF names = <<>> THEN [entries |-> <<>>, saved |-> <<>>, index |-> <<>>]
  ELSE
    LET file_name == Head(names)
        full_path == current_path \o <<file_name>>
        rest == TraverseEntries(wt, current_path, Tail(names))
    IN IF full_path \in DOMAIN wt
       THEN LET f == chunk_and_save_file(wt[full_path].data) IN
            [entries |-> <<[mode |-> FILE_MODE, name |-> file_name, id |-> f.file_id]>>
                           \o rest.entries,
             saved |-> f.saved \o rest.saved,
             index |-> <<[path |-> full_path, mtime |-> wt[full_path].mtime,
                          size |-> Len(wt[full_path].data), file_id |-> f.file_id]>>
                         \o rest.index]
       ELSE LET d == traverse_and_save_tree(wt, full_path) IN
            [entries |-> <<[mode |-> DIR_MODE, name |-> file_name, id |-> d.id]>>
                           \o rest.entries,
             saved |-> d.saved \o rest.saved,
             index |-> d.index \o rest.index]

traverse_and_save_tree(wt, current_path) ==
  LET r == TraverseEntries(wt, current_path, SortedSeq(Children(wt, current_path)))
      directory_bytes == SerializeDirectory(r.entries)
  IN [id |-> hash_object(directory_bytes), saved |-> r.saved \o <<directory_bytes>>,
      index |-> r.index]

\* index.update_entry for every entry produced by the traversal, on a
\* cleared index.
IndexOf(entries) ==
  [p \in {e.path : e \in Range(entries)} |->
     LET e == CHOOSE x \in Range(entries) : x.path = p
     IN [mtime |-> e.mtime, size |-> e.size, file_id |-> e.file_id]]

\* get_head_commit_id: the parent used by save_snapshot (a sequence of at
\* most one id; the empty sequence is the empty string).
get_head_commit_id(ref) == <<>>

\* The commit save_snapshot builds for a working tree at time now.
SnapshotCommit(wt, ref, now) ==
  LET parent_id == get_head_commit_id(ref)
      t == traverse_and_save_tree(wt, <<>>)
      commit_bytes == SerializeCommit([tree |-> t.id, parents |-> parent_id,
                                       author |-> AUTHOR, timestamp |-> now,
                                       message |-> MESSAGE, signature |-> SIG_NONE])
  IN [commit_id |-> hash_object(commit_bytes), commit_bytes |-> commit_bytes,
      parents |-> parent_id, saved |-> t.saved \o <<commit_bytes>>,
      index |-> IndexOf(t.index)]

(***************************************************************************)
(* main.rs: the classifier and the local closure walk of the upload phase. *)
(***************************************************************************)
\* The wire type of a byte sequence: Commit, then Tree, then File, else chunk.
Classify(b) ==
  IF ParsesAsCommit(b) THEN "commit"
  ELSE IF ParsesAsDirectory(b) THEN "tree"
  ELSE IF ParsesAsFile(b) THEN "file"
  ELSE "chunk"

\* load_local_object: fails when the file is absent or empty and unparsable.
load_local_object(store, id) ==
  IF id \notin DOMAIN store THEN [ok |-> FALSE, otype |-> "", data |-> <<>>]
  ELSE IF Classify(store[id]) = "chunk" /\ store[id] = <<>>
       THEN [ok |-> FALSE, otype |-> "", data |-> <<>>]
       ELSE [ok |-> TRUE, otype |-> Classify(store[id]), data |-> store[id]]

\* The ids an object of the given type refers to, in the order pushed.
References(otype, data) ==
  IF otype = "commit" THEN <<ParseCommit(data).tree>>
  ELSE IF otype = "tree"
       THEN [i \in DOMAIN ParseDirectory(data) |-> ParseDirectory(data)[i].id]
       ELSE IF otype = "file" THEN <<ParseFile(data).root_chunk_id>>
            ELSE <<>>

InSeq(x, s) == \E i \in DOMAIN s : s[i] = x

RECURSIVE PushNew(_, _, _)
PushNew(queue, refs, all) ==
  IF refs = <<>> THEN queue
  ELSE PushNew(IF InSeq(Head(refs), all) THEN queue ELSE Append(queue, Head(refs)),
               Tail(refs), all)

\* The while-let loop over object_queue (popped from the back).
RECURSIVE UploadClosure(_, _, _)
UploadClosure(store, object_queue, all_objects_to_upload) ==
  IF object_queue = <<>> THEN [ok |-> TRUE, all |-> all_objects_to_upload]
  ELSE
    LET object_id == object_queue[Len(object_queue)]
        queue == SubSeq(object_queue, 1, Len(object_queue) - 1)
    IN IF InSeq(object_id, all_objects_to_upload)
       THEN UploadClosure(store, queue, all_objects_to_upload)
       ELSE LET l == load_local_object(store, object_id) IN
            IF ~l.ok THEN [ok |-> FALSE, all |-> all_objects_to_upload]
            ELSE LET all == Append(all_objects_to_upload, object_id) IN
                 UploadClosure(store, PushNew(queue, References(l.otype, l.data), all), all)

(***************************************************************************)
(* vnp.rs: frames.  Every frame is a record of the same shape; the fields  *)
(* a tag does not use hold 0, "" or <<>>.                                  *)
(***************************************************************************)
Frame(tag, id, otype, size, data) ==
  [tag |-> tag, id |-> id, otype |-> otype, size |-> size, data |-> data]

ObjectHeader(id, otype, size) == Frame("ObjectHeader", id, otype, size, <<>>)
ObjectData(chunk) == Frame("ObjectData", 0, "", 0, chunk)
ErrorFrame(msg) == Frame("Error", 0, msg, 0, <<>>)
OkFrame == Frame("Ok", 0, "", 0, <<>>)
WantFrame(ids) == Frame("Want", 0, "", 0, ids)
AuthResult(success) == Frame("AuthResult", 0, IF success THEN "true" ELSE "false", 0, <<>>)
RepositorySelected == Frame("RepositorySelected", 0, "", 0, <<>>)
SendObject(id) == Frame("SendObject", id, "", 0, <<>>)

\* recv_object_data, with the unread frames: loops while fewer than
\* expected_size bytes were received; a stream that ends is an i/o error.
RECURSIVE RecvLoop(_, _, _)
RecvLoop(received_data, frames, expected_size) ==
  IF Len(received_data) >= expected_size
  THEN [ok |-> TRUE, data |-> received_data, rest |-> frames, err |-> ""]
  ELSE IF frames = <<>>
       THEN [ok |-> FALSE, data |-> <<>>, rest |-> <<>>, err |-> "closed"]
       ELSE IF Head(frames).tag = "ObjectData"
            THEN RecvLoop(received_data \o Head(frames).data, Tail(frames), expected_size)
            ELSE IF Head(frames).tag = "Error"
                 THEN [ok |-> FALSE, data |-> <<>>, rest |-> <<>>, err |-> "Server error"]
                 ELSE [ok |-> FALSE, data |-> <<>>, rest |-> <<>>,
                       err |-> "Expected ObjectData"]

\* A receiver that takes a frame other than ObjectData as the end of the
\* object.
RECURSIVE RecvLoopLenient(_, _, _)
RecvLoopLenient(received_data, frames, expected_size) ==
  IF Len(received_data) >= expected_size \/ frames = <<>>
     \/ Head(frames).tag # "ObjectData"
  THEN [ok |-> TRUE, data |-> received_data, rest |-> <<>>, err |-> ""]
  ELSE RecvLoopLenient(received_data \o Head(frames).data, Tail(frames), expected_size)

recv_object_data_lenient(frames, expected_size) ==
  RecvLoopLenient(<<>>, frames, expected_size)

recv_object_data(frames, expected_size) == RecvLoop(<<>>, frames, expected_size)

\* store_received_object: parses by the announced type, then stores.
store_received_object(store, id, object_type, data) ==
  IF \/ object_type = "commit" /\ ParsesAsCommit(data)
     \/ object_type = "tree" /\ ParsesAsDirectory(data)
     \/ object_type = "file" /\ ParsesAsFile(data)
  THEN [ok |-> TRUE, store |-> store_object_with_id(store, id, data)]
  ELSE [ok |-> FALSE, store |-> store]

(***************************************************************************)
(* main.rs: the download walk.  A pending call of download_tree_recursive, *)
(* download_file_recursive or download_chunk is a task [kind, id]; stack   *)
(* holds the pending calls, the next one first.                            *)
(***************************************************************************)
Task(kind, id) == [kind |-> kind, id |-> id]

\* The calls a received tree makes for its entries, in entry order.
RECURSIVE EntryTasks(_)
EntryTasks(entries) ==
  IF entries = <<>> THEN <<>>
  ELSE (IF Head(entries).mode = DIR_MODE THEN <<Task("tree", Head(entries).id)>>
        ELSE IF Head(entries).mode = FILE_MODE THEN <<Task("file", Head(entries).id)>>
             ELSE <<>>)
         \o EntryTasks(Tail(entries))

\* Runs the client from the end of one reply to its next request: skips the
\* pending calls whose object exists locally and, with no call pending,
\* enters download_complete_object_graph for the next commit of the Want
\* list (loading and parsing it from the store).
RECURSIVE Advance(_, _, _, _)
Advance(store, missing_commits, gi, stack) ==
  IF stack # <<>>
  THEN IF object_exists_locally(store, Head(stack).id)
       THEN Advance(store, missing_commits, gi, Tail(stack))
       ELSE [status |-> "request", gi |-> gi, stack |-> stack]
  ELSE IF gi > Len(missing_commits)
       THEN [status |-> "finished", gi |-> gi, stack |-> <<>>]
       ELSE LET commit_id == missing_commits[gi] IN
            IF ~object_exists_locally(store, commit_id)
            THEN [status |-> "error", gi |-> gi, stack |-> <<>>]
            ELSE IF ~ParsesAsCommit(store[commit_id])
                 THEN [status |-> "error", gi |-> gi, stack |-> <<>>]
                 ELSE Advance(store, missing_commits, gi + 1,
                              <<Task("tree", ParseCommit(store[commit_id]).tree)>>)

\* A download that leaves the tip alone.
update_head_after_sync_skipped(ref, commit_ids) == ref

\* update_head_after_sync
update_head_after_sync(ref, commit_ids) ==
  IF commit_ids # <<>> THEN <<commit_ids[Len(commit_ids)]>> ELSE ref

\* commits_to_upload: the local commits the Want list does not name.
RECURSIVE CommitsToUpload(_, _)
CommitsToUpload(local_commits, server_commits) ==
  IF local_commits = <<>> THEN <<>>
  ELSE (IF InSeq(Head(local_commits), server_commits) THEN <<>>
        ELSE <<Head(local_commits)>>)
         \o CommitsToUpload(Tail(local_commits), server_commits)

(***************************************************************************)
(* The server.  It holds the snapshot of a peer's working tree and may     *)
(* answer a request as the protocol prescribes or deviate from it in one   *)
(* respect.                                                                *)
(***************************************************************************)
RemoteWorktree ==
  [p \in Paths |-> [data |-> IF p = <<NameA>> THEN <<1>> ELSE <<3>>, mtime |-> 0]]

RemoteSnapshot == SnapshotCommit(RemoteWorktree, <<>>, 7)

RemoteObjects == SaveAll(EmptyStore, RemoteSnapshot.saved, {})

RemoteCommitId == RemoteSnapshot.commit_id

\* A second commit of the same tree, which the server may send in place of
\* the first.
OtherCommit ==
  SerializeCommit([tree |-> ParseCommit(RemoteSnapshot.commit_bytes).tree,
                   parents |-> <<>>, author |-> AUTHOR, timestamp |-> 8,
                   message |-> MESSAGE, signature |-> SIG_NONE])

\* A commit of the same tree that names the first commit as its parent; sent
\* in place of the first commit, it is its own parent.
CyclicCommit ==
  SerializeCommit([tree |-> ParseCommit(RemoteSnapshot.commit_bytes).tree,
                   parents |-> <<RemoteCommitId>>, author |-> AUTHOR, timestamp |-> 7,
                   message |-> MESSAGE, signature |-> SIG_NONE])

ServerBlobs == Range(RemoteSnapshot.saved) \cup {OtherCommit, CyclicCommit}

Substitutes(kind, id) ==
  {b \in ServerBlobs : Classify(b) = kind /\ hash_data(b) # id}

Reply(id, otype, size, frames) == <<ObjectHeader(id, otype, size)>> \o frames

\* What the protocol prescribes for Get / GetTree / GetFile of id.
HonestReplies(id) ==
  IF id \in DOMAIN RemoteObjects
  THEN LET b == RemoteObjects[id] IN
       {Reply(id, Classify(b), Len(b), <<ObjectData(b)>>)}
         \cup {Reply(id, Classify(b), Len(b),
                     <<ObjectData(SubSeq(b, 1, 1)), ObjectData(SubSeq(b, 2, Len(b)))>>) :
                 x \in {y \in {1} : Len(b) >= 2}}
  ELSE {<<ErrorFrame("not found")>>}

\* The deviations: other bytes under the requested id, another object under
\* its own id, a wrong type, fewer bytes than announced followed by another
\* frame or by nothing, more bytes than announced, a stray frame.
DeviantReplies(kind, id) ==
  LET bs == IF id \in DOMAIN RemoteObjects THEN {RemoteObjects[id]} ELSE {} IN
  {Reply(id, kind, Len(s), <<ObjectData(s)>>) : s \in Substitutes(kind, id)}
    \cup {Reply(hash_data(s), kind, Len(s), <<ObjectData(s)>>) : s \in Substitutes(kind, id)}
    \cup {Reply(id, "chunk", Len(b), <<ObjectData(b)>>) : b \in {x \in bs : kind # "chunk"}}
    \cup {Reply(id, Classify(b), Len(b) + 1, <<ObjectData(b), OkFrame>>) : b \in bs}
    \cup {Reply(id, Classify(b), Len(b) + 1, <<ObjectData(b), ErrorFrame("")>>) : b \in bs}
    \cup {Reply(id, Classify(b), Len(b) + 1, <<ObjectData(b)>>) : b \in bs}
    \cup {Reply(id, Classify(b), Len(b) - 1, <<ObjectData(b)>>) : b \in {x \in bs : Len(x) >= 1}}
    \cup {<<OkFrame>>}
    \cup {<<ErrorFrame("not found")>> : b \in bs}

(***************************************************************************)
(* State.                                                                  *)
(***************************************************************************)
VARIABLES
  objects,    \* .orb/objects: id -> bytes
  head_ref,   \* .orb/refs/heads/main: <<>> (absent or empty) or <<tip id>>
  index,      \* .orb/index: path -> [mtime, size, file_id]
  worktree,   \* regular files outside .orb: path -> [data, mtime]
  clock,      \* the system time in seconds
  nsnap,      \* snapshots taken
  nedit,      \* working-tree edits made
  nstatus,    \* status checks run
  nsess,      \* sessions started
  snaps,      \* the commits of the successful snapshots since the last session
  puts,       \* the (id, data) of every put of the last local operation
  pc,         \* position of the running command
  mode,       \* "sync" or "clone"
  opened,     \* connections the last sync, clone or list-repos command opened
  repo,       \* a repository name was given and is not yet selected
  local_commits, \* the Have list: the tip when the session began
  want,       \* missing_commits, the Want list received
  ci,         \* position in the commit loop
  gi,         \* position in the object-graph loop
  stack,      \* pending download calls
  upl,        \* all_objects_to_upload
  rx,         \* frames sent by the server and not yet read
  err,        \* the error a failed session returned
  prev_abort, \* the Want list of the preceding session when its stream closed during download
  ndev,       \* replies so far in which the server deviated from the protocol
  partial,    \* the ids whose file a killed process left partly written
  wire,       \* the frames the client sent and read in the running or completed session
  naborted,   \* save_snapshot runs that returned an error or were killed
  runs,       \* the save_snapshot processes running side by side
  report,     \* what the last command printed, when it was check_status
  base,       \* the working tree as the last save_snapshot that returned Ok read it
  nrevert,    \* revert commands run
  ncheckout,  \* checkout commands run
  chan,       \* one object in transit: the bytes, the frames behind them, what was read
  text        \* one URL given on the command line, and what was made of it

local == <<index, worktree, clock, nsnap, nedit, nstatus, partial, naborted, runs, report,
           base, nrevert, ncheckout, chan, text>>
vars == <<objects, head_ref, index, worktree, clock, nsnap, nedit, nstatus, nsess, snaps,
          puts, pc, mode, opened, repo, local_commits, want, ci, gi, stack, upl, rx, err,
          prev_abort, ndev, partial, naborted, runs, wire, report, base, nrevert, ncheckout, chan, text>>

\* No status was printed by the last command.
NoReport == [ran |-> FALSE, ok |-> FALSE, empty |-> FALSE, changes |-> <<>>]

\* No working tree: no file at any path.
NoFiles == [p \in {} |-> [data |-> <<>>, mtime |-> 0]]

\* No object is in transit.
NoTransfer == [st |-> "none", d |-> <<>>, stream |-> <<>>, tail |-> <<>>, ok |-> FALSE,
               data |-> <<>>]

\* No URL was given.
NoText == [st |-> "none", parts |-> <<>>, url |-> <<>>, out |-> [ok |-> FALSE]]

\* The save_snapshot processes and the state of one that has not started.
Runs == {1, 2}
IdleRun == [st |-> "idle", saved |-> <<>>, pos |-> 0, commit_id |-> 0]

InitWorktree ==
  [p \in Paths |-> [data |-> IF p = <<NameA>> THEN <<1>> ELSE <<2>>, mtime |-> 0]]

\* A repository after `orb init`, before any command, whatever the working
\* tree holds.
InitRepository ==
  /\ objects = EmptyStore
  /\ head_ref = <<>>
  /\ index = [p \in {} |-> <<>>]
  /\ clock = 0
  /\ nsnap = 0
  /\ nedit = 0
  /\ nstatus = 0
  /\ nsess = 0
  /\ snaps = <<>>
  /\ puts = {}
  /\ pc = "idle"
  /\ mode = "sync"
  /\ opened = 0
  /\ repo = FALSE
  /\ local_commits = <<>>
  /\ want = <<>>
  /\ ci = 0
  /\ gi = 0
  /\ stack = <<>>
  /\ upl = <<>>
  /\ rx = <<>>
  /\ err = ""
  /\ prev_abort = <<>>
  /\ ndev = 0
  /\ partial = {}
  /\ naborted = 0
  /\ wire = <<>>
  /\ runs = [r \in Runs |-> IdleRun]
  /\ report = NoReport
  /\ base = NoFiles
  /\ nrevert = 0
  /\ ncheckout = 0

Init ==
  /\ InitRepository
  /\ worktree = InitWorktree
  /\ chan = NoTransfer
  /\ text = NoText

InSession ==
  pc \in {"auth", "select", "create", "list", "want", "commit", "object", "upload", "ready"}

\* A local command starts when no command is running.
CommandStart ==
  /\ ~InSession
  /\ pc' = "idle"
  /\ err' = ""
  /\ want' = <<>>
  /\ local_commits' = <<>>
  /\ prev_abort' = <<>>
  /\ wire' = <<>>
  /\ UNCHANGED <<nsess, mode, opened, repo, ci, gi, stack, upl, rx, ndev, partial, naborted, runs,
                 chan, text>>

FailureSets(saved) ==
  {F \in SUBSET {hash_data(d) : d \in Range(saved)} : Cardinality(F) <= MaxWriteFailures}

PutsOf(saved, failed) ==
  {[id |-> hash_data(d), data |-> d, write_ok |-> hash_data(d) \notin failed] :
     d \in Range(saved)}

\* repo::save_snapshot
SaveSnapshot ==
  /\ CommandStart
  /\ nsnap < MaxSnapshots
  /\ LET s == SnapshotCommit(worktree, head_ref, clock) IN
     \E failed \in FailureSets(s.saved) :
       /\ objects' = SaveAll(objects, s.saved, failed)
       /\ index' = s.index
       /\ head_ref' = <<s.commit_id>>
       /\ snaps' = (IF Len(snaps) = 2 THEN Tail(snaps) ELSE snaps)
                     \o <<[oid |-> s.commit_id, parents |-> s.parents]>>
       /\ puts' = PutsOf(s.saved, failed)
  /\ nsnap' = nsnap + 1
  /\ base' = worktree
  /\ report' = NoReport
  /\ UNCHANGED <<worktree, clock, nedit, nstatus, nrevert, ncheckout>>

\* The numbers of save_object calls after which a read of the traversal
\* (read_dir, its iterator, metadata, fs::read) can fail: never between the
\* chunk and the File object of one file, never after the root tree.
ReadFailurePoints(saved) ==
  {k \in 0..(Len(saved) - 2) : k = 0 \/ Classify(saved[k]) # "chunk"}

\* A tip that is cleared before the traversal begins.
SnapshotFailureTipFirst(store, ref, saved, k, failed) ==
  [objects |-> SaveAll(store, SubSeq(saved, 1, k), failed), head_ref |-> <<>>]

\* save_snapshot returning the error of a read after k save_object calls:
\* `?` leaves traverse_and_save_tree before index.save and update_head.
SnapshotFailure(store, ref, saved, k, failed) ==
  [objects |-> SaveAll(store, SubSeq(saved, 1, k), failed), head_ref |-> ref]

\* repo::save_snapshot when a read of the working tree fails
SaveSnapshotFails ==
  /\ ~InSession
  /\ naborted < MaxAborted
  /\ naborted' = naborted + 1
  /\ LET s == SnapshotCommit(worktree, head_ref, clock) IN
     \E k \in ReadFailurePoints(s.saved) :
       \E failed \in FailureSets(SubSeq(s.saved, 1, k)) :
         LET f == SnapshotFailure(objects, head_ref, s.saved, k, failed) IN
         /\ objects' = f.objects
         /\ head_ref' = f.head_ref
         /\ puts' = PutsOf(SubSeq(s.saved, 1, k), failed)
  /\ pc' = "failed"
  /\ err' = "read"
  /\ want' = <<>>
  /\ local_commits' = <<>>
  /\ prev_abort' = <<>>
  /\ wire' = <<>>
  /\ UNCHANGED <<index, worktree, clock, nsnap, nedit, nstatus, nsess, snaps, mode, opened, repo,
                 ci, gi, stack, upl, rx, ndev, partial, runs, report, base, nrevert, ncheckout, chan, text>>

\* fs::write stopped after the file was created and j bytes were written.
interrupted_write(store, data, j) ==
  [o \in DOMAIN store \cup {hash_data(data)} |->
     IF o = hash_data(data) THEN SubSeq(data, 1, j) ELSE store[o]]

\* repo::save_snapshot when the process is killed inside the fs::write of its
\* (k+1)-th save_object call.
SaveSnapshotCrash ==
  /\ ~InSession
  /\ naborted < MaxAborted
  /\ naborted' = naborted + 1
  /\ LET s == SnapshotCommit(worktree, head_ref, clock) IN
     \E k \in 0..(Len(s.saved) - 1) :
       LET store == SaveAll(objects, SubSeq(s.saved, 1, k), {})
           data == s.saved[k + 1]
       IN /\ ~object_exists_locally(store, hash_data(data))
          /\ \E j \in 0..(Len(data) - 1) :
               objects' = interrupted_write(store, data, j)
          /\ partial' = partial \cup {hash_data(data)}
  /\ pc' = "failed"
  /\ err' = "killed"
  /\ puts' = {}
  /\ want' = <<>>
  /\ local_commits' = <<>>
  /\ prev_abort' = <<>>
  /\ wire' = <<>>
  /\ UNCHANGED <<head_ref, index, worktree, clock, nsnap, nedit, nstatus, nsess, snaps, mode, opened,
                 repo, ci, gi, stack, upl, rx, ndev, runs, report, base, nrevert, ncheckout, chan, text>>

(***************************************************************************)
(* Two save_snapshot processes on one repository, interleaved at the file  *)
(* system calls of save_object and update_head.  A process reads the       *)
(* working tree when it begins; its save_object calls are the sequence     *)
(* saved, of which pos is the one in progress.                             *)
(***************************************************************************)
rest_of_session == <<index, worktree, clock, nsnap, nedit, nstatus, nsess, snaps, puts, pc,
                     mode, opened, repo, local_commits, want, ci, gi, stack, upl, rx, err,
                     prev_abort, ndev, partial, naborted, wire, report, base, nrevert, ncheckout, chan, text>>

RunAt(r, st, pos) == [runs EXCEPT ![r] = [@ EXCEPT !.st = st, !.pos = pos]]

\* After a save_object call returns: the next call or, after the commit
\* object, update_head.
AfterObject(r) ==
  IF runs[r].pos < Len(runs[r].saved)
  THEN RunAt(r, "exists", runs[r].pos + 1)
  ELSE RunAt(r, "head_create", runs[r].pos)

ConcBegin ==
  \E r \in Runs :
    /\ runs[r].st = "idle"
    /\ LET s == SnapshotCommit(worktree, head_ref, clock) IN
       runs' = [runs EXCEPT ![r] = [st |-> "exists", saved |-> s.saved, pos |-> 1,
                                    commit_id |-> s.commit_id]]
    /\ UNCHANGED <<objects, head_ref, rest_of_session>>

\* save_object: object_file.exists()
ConcExists ==
  \E r \in Runs :
    /\ runs[r].st = "exists"
    /\ runs' = IF object_exists_locally(objects, hash_data(runs[r].saved[runs[r].pos]))
               THEN AfterObject(r)
               ELSE RunAt(r, "create", runs[r].pos)
    /\ UNCHANGED <<objects, head_ref, rest_of_session>>

\* save_object: fs::write creates (or truncates) the file
ConcCreate ==
  \E r \in Runs :
    /\ runs[r].st = "create"
    /\ objects' = interrupted_write(objects, runs[r].saved[runs[r].pos], 0)
    /\ runs' = RunAt(r, "write", runs[r].pos)
    /\ UNCHANGED <<head_ref, rest_of_session>>

\* save_object: fs::write writes the bytes
ConcWrite ==
  \E r \in Runs :
    /\ runs[r].st = "write"
    /\ objects' = interrupted_write(objects, runs[r].saved[runs[r].pos],
                                    Len(runs[r].saved[runs[r].pos]))
    /\ runs' = AfterObject(r)
    /\ UNCHANGED <<head_ref, rest_of_session>>

\* update_head: File::create truncates the ref file
ConcHeadCreate ==
  \E r \in Runs :
    /\ runs[r].st = "head_create"
    /\ head_ref' = <<>>
    /\ runs' = RunAt(r, "head_write", runs[r].pos)
    /\ UNCHANGED <<objects, rest_of_session>>

\* update_head: write_all of the commit id
ConcHeadWrite ==
  \E r \in Runs :
    /\ runs[r].st = "head_write"
    /\ head_ref' = <<runs[r].commit_id>>
    /\ runs' = RunAt(r, "done", runs[r].pos)
    /\ UNCHANGED <<objects, rest_of_session>>

\* index.has_file_changed for a tracked file present on disk
has_file_changed(entry, file) ==
  entry.mtime # file.mtime \/ entry.size # Len(file.data)

\* The save_object calls of check_status: chunk_and_save_file of every
\* tracked file that is present and whose metadata differs from the index.
RECURSIVE StatusSaved(_, _, _)
StatusSaved(idx, wt, paths) ==
  IF paths = <<>> THEN <<>>
  ELSE LET p == Head(paths) IN
       (IF p \in DOMAIN wt /\ has_file_changed(idx[p], wt[p])
        THEN chunk_and_save_file(wt[p].data).saved ELSE <<>>)
         \o StatusSaved(idx, wt, Tail(paths))

RECURSIVE SetToSeq(_)
SetToSeq(S) ==
  IF S = {} THEN <<>>
  ELSE LET x == CHOOSE y \in S : TRUE IN <<x>> \o SetToSeq(S \ {x})

\* Path::exists: a regular file, or a directory (one with a file below it).
path_exists(wt, p) == p \in DOMAIN wt \/ Children(wt, p) # {}

\* The entries pushed to changes for the paths of S, all with one status.
Changes(S, status) ==
  [i \in DOMAIN SetToSeq(S) |-> [path |-> SetToSeq(S)[i], status |-> status]]

\* What check_status prints for an index and a working tree: nothing but
\* "Repository is empty" when the index has no entry; else Deleted for the
\* tracked paths that do not exist, Modified for the tracked files whose
\* metadata differs from the index and whose File id differs too, and
\* Untracked for the files the scan finds that the index does not hold.
\* Reading a tracked path that has become a directory is an error.
check_status(idx, wt) ==
  IF DOMAIN idx = {}
  THEN [ran |-> TRUE, ok |-> TRUE, empty |-> TRUE, changes |-> <<>>]
  ELSE LET deleted == {p \in DOMAIN idx : ~path_exists(wt, p)}
           files_needing_full_check ==
             {p \in DOMAIN idx : p \in DOMAIN wt /\ has_file_changed(idx[p], wt[p])}
           modified == {p \in files_needing_full_check :
                          chunk_and_save_file(wt[p].data).file_id # idx[p].file_id}
           untracked == DOMAIN wt \ DOMAIN idx
       IN IF \E p \in DOMAIN idx : path_exists(wt, p) /\ p \notin DOMAIN wt
          THEN [ran |-> TRUE, ok |-> FALSE, empty |-> FALSE, changes |-> <<>>]
          ELSE [ran |-> TRUE, ok |-> TRUE, empty |-> FALSE,
                changes |-> Changes(deleted, "Deleted") \o Changes(modified, "Modified")
                              \o Changes(untracked, "Untracked")]

\* status::check_status
CheckStatus ==
  /\ CommandStart
  /\ nstatus < MaxStatus
  /\ LET saved == IF DOMAIN index = {} THEN <<>>
                  ELSE StatusSaved(index, worktree, SetToSeq(DOMAIN index)) IN
     \E failed \in FailureSets(saved) :
       /\ objects' = SaveAll(objects, saved, failed)
       /\ puts' = PutsOf(saved, failed)
  /\ nstatus' = nstatus + 1
  /\ report' = check_status(index, worktree)
  /\ UNCHANGED <<head_ref, index, worktree, clock, nsnap, nedit, snaps, base, nrevert, ncheckout>>

\* The user writes a file of the working tree.
WriteFile ==
  /\ CommandStart
  /\ nedit < MaxEdits
  /\ \E p \in Paths, c \in Contents :
       /\ (p \in DOMAIN worktree => worktree[p].data # c)
       /\ worktree' = [q \in DOMAIN worktree \cup {p} |->
                         IF q = p THEN [data |-> c, mtime |-> clock] ELSE worktree[q]]
  /\ nedit' = nedit + 1
  /\ puts' = {}
  /\ report' = NoReport
  /\ UNCHANGED <<objects, head_ref, index, clock, nsnap, nstatus, snaps, base, nrevert, ncheckout>>

\* The user deletes a file of the working tree.
DeleteFile ==
  /\ CommandStart
  /\ nedit < MaxEdits
  /\ \E p \in DOMAIN worktree :
       worktree' = [q \in DOMAIN worktree \ {p} |-> worktree[q]]
  /\ nedit' = nedit + 1
  /\ puts' = {}
  /\ report' = NoReport
  /\ UNCHANGED <<objects, head_ref, index, clock, nsnap, nstatus, snaps, base, nrevert, ncheckout>>

\* repo::save_snapshot when index.save fails at the opening of .orb/index:
\* the failure is a warning, the index file stays as it was, the commit is
\* written and the tip updated.
SaveSnapshotIndexUnsaved ==
  /\ CommandStart
  /\ nsnap < MaxSnapshots
  /\ LET s == SnapshotCommit(worktree, head_ref, clock) IN
     /\ objects' = SaveAll(objects, s.saved, {})
     /\ head_ref' = <<s.commit_id>>
     /\ snaps' = (IF Len(snaps) = 2 THEN Tail(snaps) ELSE snaps)
                   \o <<[oid |-> s.commit_id, parents |-> s.parents]>>
     /\ puts' = PutsOf(s.saved, {})
  /\ nsnap' = nsnap + 1
  /\ base' = worktree
  /\ report' = NoReport
  /\ UNCHANGED <<index, worktree, clock, nedit, nstatus, nrevert, ncheckout>>

(***************************************************************************)
(* history.rs: revert.                                                     *)
(***************************************************************************)
\* load_object_data: fs::read of the object's file.
load_object_data(store, object_id) ==
  IF object_id \in DOMAIN store THEN [ok |-> TRUE, data |-> store[object_id]]
  ELSE [ok |-> FALSE, data |-> <<>>]

\* build_file_map: the (path, File id) pairs of a directory and, through
\* load_directory_object, of the directories below it.
RECURSIVE build_file_map(_, _, _)
build_file_map(store, entries, current_path) ==
  IF entries = <<>> THEN [ok |-> TRUE, files |-> {}]
  ELSE LET entry == Head(entries)
           entry_path == current_path \o <<entry.name>>
           rest == build_file_map(store, Tail(entries), current_path)
       IN IF entry.mode = DIR_MODE
          THEN LET l == load_object_data(store, entry.id) IN
               IF l.ok /\ ParsesAsDirectory(l.data)
               THEN LET sub == build_file_map(store, ParseDirectory(l.data), entry_path) IN
                    [ok |-> sub.ok /\ rest.ok, files |-> sub.files \cup rest.files]
               ELSE [ok |-> FALSE, files |-> {}]
          ELSE [ok |-> rest.ok,
                files |-> {[path |-> entry_path, id |-> entry.id]} \cup rest.files]

\* The files of the head commit: read_head_commit_id, load_commit_object,
\* load_directory_object, build_file_map.
committed_files(store, ref) ==
  IF ref = <<>> THEN [ok |-> TRUE, files |-> {}]
  ELSE LET c == load_object_data(store, ref[1]) IN
       IF ~(c.ok /\ ParsesAsCommit(c.data)) THEN [ok |-> FALSE, files |-> {}]
       ELSE LET d == load_object_data(store, ParseCommit(c.data).tree) IN
            IF ~(d.ok /\ ParsesAsDirectory(d.data)) THEN [ok |-> FALSE, files |-> {}]
            ELSE build_file_map(store, ParseDirectory(d.data), <<>>)

\* revert_single_file: load_file_object, reassemble_file_content (the root
\* chunk), create_dir_all of the parent, fs::write.  An object that cannot
\* be read or parsed, a parent that is a regular file, or a directory at the
\* path is an error, and the working tree stays as it is.
revert_single_file(store, wt, f, now) ==
  LET o == load_object_data(store, f.id) IN
  IF ~(o.ok /\ ParsesAsFile(o.data)) THEN wt
  ELSE LET chunk == load_object_data(store, ParseFile(o.data).root_chunk_id) IN
       IF ~chunk.ok THEN wt
       ELSE IF \E k \in 1..(Len(f.path) - 1) : SubSeq(f.path, 1, k) \in DOMAIN wt THEN wt
            ELSE IF Children(wt, f.path) # {} THEN wt
                 ELSE [q \in DOMAIN wt \cup {f.path} |->
                         IF q = f.path THEN [data |-> chunk.data, mtime |-> now] ELSE wt[q]]

\* The loop of revert_files over files_to_revert.
RECURSIVE RevertAll(_, _, _, _)
RevertAll(store, wt, files, now) ==
  IF files = <<>> THEN wt
  ELSE RevertAll(store, revert_single_file(store, wt, Head(files), now), Tail(files), now)

\* history::revert_files with the given paths (none: every file of the head
\* commit).
revert_files(store, ref, wt, file_paths, now) ==
  LET m == committed_files(store, ref)
      files_to_revert == IF file_paths = <<>> THEN m.files
                         ELSE {f \in m.files : InSeq(f.path, file_paths)}
  IN IF ~m.ok THEN wt ELSE RevertAll(store, wt, SetToSeq(files_to_revert), now)

\* `orb revert [paths]`
RevertFiles ==
  /\ CommandStart
  /\ nrevert < MaxReverts
  /\ nrevert' = nrevert + 1
  /\ \E file_paths \in {<<>>} \cup {<<p>> : p \in Paths} :
       worktree' = revert_files(objects, head_ref, worktree, file_paths, clock)
  /\ puts' = {}
  /\ report' = NoReport
  /\ UNCHANGED <<objects, head_ref, index, clock, nsnap, nedit, nstatus, snaps, base,
                 ncheckout>>

(***************************************************************************)
(* main.rs: checkout.                                                      *)
(***************************************************************************)
\* load_object_from_vos: fs::read of the object's file.
load_object_from_vos(store, object_id) ==
  IF object_id \in DOMAIN store THEN [ok |-> TRUE, data |-> store[object_id]]
  ELSE [ok |-> FALSE, data |-> <<>>]

\* create_dir_all fails when the path or one of its ancestors is a regular
\* file.
create_dir_all(wt, path) ==
  ~\E k \in 1..Len(path) : SubSeq(path, 1, k) \in DOMAIN wt

\* restore_file_to_working_dir: the File object, its root chunk,
\* create_dir_all of the parent, fs::write (an error on a directory).
restore_file_to_working_dir(store, wt, file_id, file_path, now) ==
  LET o == load_object_from_vos(store, file_id) IN
  IF ~(o.ok /\ ParsesAsFile(o.data)) THEN [ok |-> FALSE, wt |-> wt]
  ELSE LET content_data == load_object_from_vos(store, ParseFile(o.data).root_chunk_id) IN
       IF ~content_data.ok
          \/ ~create_dir_all(wt, SubSeq(file_path, 1, Len(file_path) - 1))
          \/ Children(wt, file_path) # {}
       THEN [ok |-> FALSE, wt |-> wt]
       ELSE [ok |-> TRUE,
             wt |-> [q \in DOMAIN wt \cup {file_path} |->
                       IF q = file_path THEN [data |-> content_data.data, mtime |-> now]
                       ELSE wt[q]]]

\* restore_tree_to_working_dir from its loop on: the entries of one
\* directory in order, each directory entry restored in full before the next
\* entry; `?` ends the whole restore at the first error and keeps what was
\* written.  An entry of another mode is skipped.
RECURSIVE RestoreEntries(_, _, _, _, _)
RestoreEntries(store, wt, entries, path_prefix, now) ==
  IF entries = <<>> THEN [ok |-> TRUE, wt |-> wt]
  ELSE LET entry == Head(entries)
           full_path == path_prefix \o <<entry.name>>
           r == IF entry.mode = DIR_MODE
                THEN IF ~create_dir_all(wt, full_path) THEN [ok |-> FALSE, wt |-> wt]
                     ELSE LET tree_data == load_object_from_vos(store, entry.id) IN
                          IF ~(tree_data.ok /\ ParsesAsDirectory(tree_data.data))
                          THEN [ok |-> FALSE, wt |-> wt]
                          ELSE RestoreEntries(store, wt, ParseDirectory(tree_data.data),
                                              full_path, now)
                ELSE IF entry.mode = FILE_MODE
                     THEN restore_file_to_working_dir(store, wt, entry.id, full_path, now)
                     ELSE [ok |-> TRUE, wt |-> wt]
       IN IF r.ok THEN RestoreEntries(store, r.wt, Tail(entries), path_prefix, now) ELSE r

\* restore_tree_to_working_dir
restore_tree_to_working_dir(store, wt, tree_id, path_prefix, now) ==
  LET tree_data == load_object_from_vos(store, tree_id) IN
  IF ~(tree_data.ok /\ ParsesAsDirectory(tree_data.data)) THEN [ok |-> FALSE, wt |-> wt]
  ELSE RestoreEntries(store, wt, ParseDirectory(tree_data.data), path_prefix, now)

\* checkout_commit: commit_id is <<>> for HEAD, else <<id>>.
checkout_commit(store, ref, wt, commit_id, now) ==
  IF commit_id = <<>> /\ ref = <<>> THEN [ok |-> FALSE, wt |-> wt]
  ELSE LET target_commit == IF commit_id = <<>> THEN ref[1] ELSE commit_id[1]
           commit_data == load_object_from_vos(store, target_commit)
       IN IF ~(commit_data.ok /\ ParsesAsCommit(commit_data.data))
          THEN [ok |-> FALSE, wt |-> wt]
          ELSE restore_tree_to_working_dir(store, wt, ParseCommit(commit_data.data).tree,
                                           <<>>, now)

\* The commit ids a checkout is given: none, or the id of a stored object.
CheckoutArgs == {<<>>} \cup {<<id>> : id \in DOMAIN objects}

\* `orb checkout [commit_id]`: the command fails with the error checkout_commit
\* returns.
Checkout(commit_id) ==
  /\ ~InSession
  /\ ncheckout < MaxCheckouts
  /\ ncheckout' = ncheckout + 1
  /\ LET r == checkout_commit(objects, head_ref, worktree, commit_id, clock) IN
     /\ worktree' = r.wt
     /\ pc' = IF r.ok THEN "idle" ELSE "failed"
     /\ err' = IF r.ok THEN "" ELSE "checkout"
  /\ puts' = {}
  /\ report' = NoReport
  /\ want' = <<>>
  /\ local_commits' = <<>>
  /\ prev_abort' = <<>>
  /\ wire' = <<>>
  /\ UNCHANGED <<objects, head_ref, index, clock, nsnap, nedit, nstatus, nsess, snaps, mode, opened,
                 repo, ci, gi, stack, upl, rx, ndev, partial, naborted, runs, base, nrevert,
                 chan, text>>

CheckoutCommit == \E commit_id \in CheckoutArgs : Checkout(commit_id)

(***************************************************************************)
(* history.rs: the history walk.                                           *)
(***************************************************************************)
\* The loop of show_history from current_commit_id on.  The loop keeps no
\* state but the current id and a counter, and the store does not change
\* while it runs: it comes back to a commit it has visited exactly when it
\* never ends.  A commit that cannot be loaded or parsed ends it with an
\* error, a commit without parents ends it; otherwise it follows the first
\* parent.
RECURSIVE HistoryWalk(_, _, _)
HistoryWalk(store, current_commit_id, visited) ==
  IF current_commit_id \in visited
  THEN [terminates |-> FALSE, ok |-> FALSE, commit_count |-> Cardinality(visited)]
  ELSE LET o == load_object_data(store, current_commit_id) IN
       IF ~(o.ok /\ ParsesAsCommit(o.data))
       THEN [terminates |-> TRUE, ok |-> FALSE, commit_count |-> Cardinality(visited)]
       ELSE IF ParseCommit(o.data).parents = <<>>
            THEN [terminates |-> TRUE, ok |-> TRUE,
                  commit_count |-> Cardinality(visited) + 1]
            ELSE HistoryWalk(store, ParseCommit(o.data).parents[1],
                             visited \cup {current_commit_id})

\* history::show_history
show_history(store, ref) ==
  IF ref = <<>> THEN [terminates |-> TRUE, ok |-> TRUE, commit_count |-> 0]
  ELSE HistoryWalk(store, ref[1], {})

\* Time passes.
Tick ==
  /\ ~InSession
  /\ clock < MaxTime
  /\ clock' = clock + 1
  /\ UNCHANGED <<objects, head_ref, index, worktree, nsnap, nedit, nstatus, nsess, snaps,
                 puts, pc, mode, opened, repo, local_commits, want, ci, gi, stack, upl, rx, err,
                 prev_abort, ndev, partial, naborted, runs, wire, report, base, nrevert, ncheckout,
                 chan, text>>

(***************************************************************************)
(* The session: run_sync_with_stream and clone_repository_impl.  Each      *)
(* client action runs from the arrival of a reply to the next request.     *)
(***************************************************************************)
\* The frames a client sends.
Authenticate == Frame("Authenticate", 0, "", 0, <<>>)
SelectRepository == Frame("SelectRepository", 0, "", 0, <<>>)
CreateRepository == Frame("CreateRepository", 0, "", 0, <<>>)
ListRepositories == Frame("ListRepositories", 0, "", 0, <<>>)
RepositoryList == Frame("RepositoryList", 0, "", 0, <<>>)
Have(ids) == Frame("Have", 0, "", 0, ids)
Get(id) == Frame("Get", id, "", 0, <<>>)
GetTree(id) == Frame("GetTree", id, "", 0, <<>>)
GetFile(id) == Frame("GetFile", id, "", 0, <<>>)
Push(ids) == Frame("Push", 0, "", 0, ids)
Ready == Frame("Ready", 0, "", 0, <<>>)

\* A sender that puts all the bytes into one frame.
send_object_data_single(data) == <<ObjectData(data)>>

\* send_object_data: the bytes in ObjectData frames of at most CHUNK_SIZE.
RECURSIVE send_object_data(_)
send_object_data(data) ==
  IF data = <<>> THEN <<>>
  ELSE IF Len(data) <= CHUNK_SIZE THEN <<ObjectData(data)>>
       ELSE <<ObjectData(SubSeq(data, 1, CHUNK_SIZE))>>
              \o send_object_data(SubSeq(data, CHUNK_SIZE + 1, Len(data)))

\* An entry of wire: a frame the client sent (send_command), or the tag and
\* the type or message of a frame it read (recv_command); the ObjectData
\* frames read for one object are one entry.
Tx(f) == [dir |-> "tx", f |-> f]
Rx(f) == [dir |-> "rx", f |-> Frame(f.tag, 0, f.otype, 0, <<>>)]
RxHead == IF rx # <<>> THEN <<Rx(Head(rx))>> ELSE <<>>
RxObject(data) == <<Rx(Head(rx)), Rx(ObjectData(<<>>))>>

\* The request of a pending download call.
RequestFor(t) ==
  IF t.kind = "tree" THEN GetTree(t.id)
  ELSE IF t.kind = "file" THEN GetFile(t.id) ELSE Get(t.id)

\* The session ends with an error; nothing more is sent, and the record of
\* its frames is dropped.
Fail(e) ==
  /\ pc' = "failed"
  /\ err' = e
  /\ prev_abort' = IF e = "closed" /\ pc \in {"commit", "object"} THEN want ELSE <<>>
  /\ rx' = <<>>
  /\ ci' = 0
  /\ gi' = 0
  /\ stack' = <<>>
  /\ upl' = <<>>
  /\ repo' = FALSE
  /\ wire' = <<>>

\* The command starts: the connection is opened, then the token is read and
\* Authenticate is sent; without a token the command returns an error before
\* it sends anything.  A clone
\* runs in a directory it has just initialized; list-repos selects no
\* repository.
StartSession ==
  /\ ~InSession
  /\ nsess < MaxSessions
  /\ nsess' = nsess + 1
  /\ \E m \in {"sync", "clone", "list"}, r \in BOOLEAN, token \in BOOLEAN :
       /\ m = "clone" => objects = EmptyStore /\ head_ref = <<>> /\ nsnap = 0
       /\ m = "list" => ~r
       /\ ~token => m = "sync" /\ ~r
       /\ mode' = m
       /\ opened' = 1
       /\ repo' = (r /\ token)
       /\ pc' = IF token THEN "auth" ELSE "failed"
       /\ err' = IF token THEN "" ELSE "token"
       /\ wire' = IF token THEN <<Tx(Authenticate)>> ELSE <<>>
  /\ local_commits' = head_ref
  /\ want' = <<>>
  /\ prev_abort' = IF pc = "failed" THEN prev_abort ELSE <<>>
  /\ snaps' = <<>>
  /\ puts' = {}
  /\ UNCHANGED <<objects, head_ref, local, ci, gi, stack, upl, rx, ndev>>

\* The stream closes while the client waits for a frame.
Abort ==
  /\ InSession
  /\ rx = <<>>
  /\ Fail("closed")
  /\ UNCHANGED <<objects, head_ref, local, nsess, snaps, puts, mode, opened, local_commits, want,
                 ndev>>

\* An authentication step that takes every AuthResult for a success.
RecvAuthAnyResult ==
  /\ pc = "auth"
  /\ rx # <<>>
  /\ IF Head(rx).tag = "AuthResult"
     THEN /\ pc' = IF repo THEN "select" ELSE IF mode = "list" THEN "list" ELSE "want"
          /\ rx' = Tail(rx)
          /\ wire' = wire \o RxHead
                       \o <<Tx(IF repo THEN SelectRepository
                               ELSE IF mode = "list" THEN ListRepositories
                                    ELSE Have(local_commits))>>
          /\ UNCHANGED <<err, prev_abort, ci, gi, stack, upl, repo>>
     ELSE Fail("auth")
  /\ UNCHANGED <<objects, head_ref, local, nsess, snaps, puts, mode, opened, local_commits, want,
                 ndev>>

\* The reply to Authenticate arrives; on success SelectRepository,
\* ListRepositories or Have is sent.
RecvAuth ==
  /\ pc = "auth"
  /\ rx # <<>>
  /\ IF Head(rx).tag = "AuthResult" /\ Head(rx).otype = "true"
     THEN /\ pc' = IF repo THEN "select" ELSE IF mode = "list" THEN "list" ELSE "want"
          /\ rx' = Tail(rx)
          /\ wire' = wire \o RxHead
                       \o <<Tx(IF repo THEN SelectRepository
                               ELSE IF mode = "list" THEN ListRepositories
                                    ELSE Have(local_commits))>>
          /\ UNCHANGED <<err, prev_abort, ci, gi, stack, upl, repo>>
     ELSE Fail("auth")
  /\ UNCHANGED <<objects, head_ref, local, nsess, snaps, puts, mode, opened, local_commits, want,
                 ndev>>

\* The reply to SelectRepository or CreateRepository arrives.
RecvSelect ==
  /\ pc \in {"select", "create"}
  /\ rx # <<>>
  /\ IF Head(rx).tag = "RepositorySelected"
     THEN /\ pc' = "want"
          /\ rx' = Tail(rx)
          /\ repo' = FALSE
          /\ wire' = wire \o RxHead \o <<Tx(Have(local_commits))>>
          /\ UNCHANGED <<err, prev_abort, ci, gi, stack, upl>>
     ELSE IF /\ pc = "select"
             /\ mode = "clone"
             /\ Head(rx).tag = "Error"
             /\ Head(rx).otype = "not found"
          THEN /\ pc' = "create"
               /\ rx' = Tail(rx)
               /\ wire' = wire \o RxHead \o <<Tx(CreateRepository)>>
               /\ UNCHANGED <<err, prev_abort, ci, gi, stack, upl, repo>>
          ELSE Fail("select")
  /\ UNCHANGED <<objects, head_ref, local, nsess, snaps, puts, mode, opened, local_commits, want,
                 ndev>>

\* The reply to ListRepositories arrives.
RecvList ==
  /\ pc = "list"
  /\ rx # <<>>
  /\ IF Head(rx).tag = "RepositoryList"
     THEN /\ pc' = "done"
          /\ rx' = Tail(rx)
          /\ wire' = wire \o RxHead
          /\ UNCHANGED <<err, prev_abort, ci, gi, stack, upl, repo>>
     ELSE Fail("list")
  /\ UNCHANGED <<objects, head_ref, local, nsess, snaps, puts, mode, opened, local_commits, want,
                 ndev>>

\* An upload phase that sends Ready right after Push.
EnterUploadEager(store) ==
  LET commits_to_upload == CommitsToUpload(local_commits, want')
      walk == UploadClosure(store, commits_to_upload, <<>>)
  IN IF local_commits # <<>> /\ commits_to_upload # <<>>
     THEN IF walk.ok
          THEN [pc |-> "ready", upl |-> <<>>, err |-> "",
                tx |-> <<Tx(Push(commits_to_upload)), Tx(Ready)>>]
          ELSE [pc |-> "failed", upl |-> <<>>, err |-> "load", tx |-> <<>>]
     ELSE [pc |-> "ready", upl |-> <<>>, err |-> "", tx |-> <<Tx(Ready)>>]

\* The upload phase as entered with the given store and tip: the closure
\* walk, then Push; with nothing to upload, Ready.
EnterUpload(store) ==
  LET commits_to_upload == CommitsToUpload(local_commits, want')
      walk == UploadClosure(store, commits_to_upload, <<>>)
  IN IF local_commits # <<>> /\ commits_to_upload # <<>>
     THEN IF walk.ok
          THEN [pc |-> "upload", upl |-> walk.all, err |-> "",
                tx |-> <<Tx(Push(commits_to_upload))>>]
          ELSE [pc |-> "failed", upl |-> <<>>, err |-> "load", tx |-> <<>>]
     ELSE [pc |-> "ready", upl |-> <<>>, err |-> "", tx |-> <<Tx(Ready)>>]

\* The client continues after the replies read so far (logged as read), with
\* the given store, loop position and pending calls, up to its next request
\* or its end.
Continue(store, g, stk, frames, read) ==
  LET a == Advance(store, want', g, stk) IN
  /\ objects' = store
  /\ IF a.status = "request"
     THEN /\ pc' = "object"
          /\ gi' = a.gi
          /\ stack' = a.stack
          /\ rx' = frames
          /\ wire' = wire \o read \o <<Tx(RequestFor(Head(a.stack)))>>
          /\ UNCHANGED <<head_ref, err, prev_abort, upl, repo>>
          /\ ci' = 0
     ELSE IF a.status = "error"
          THEN Fail("load") /\ UNCHANGED head_ref
          ELSE IF mode = "clone"
               THEN /\ pc' = "ready"
                    /\ rx' = frames
                    /\ ci' = 0
                    /\ gi' = 0
                    /\ stack' = <<>>
                    /\ wire' = wire \o read \o <<Tx(Ready)>>
                    /\ UNCHANGED <<head_ref, err, prev_abort, upl, repo>>
               ELSE LET u == EnterUpload(store) IN
                    /\ head_ref' = update_head_after_sync(head_ref, want')
                    /\ IF u.pc = "failed"
                       THEN Fail(u.err)
                       ELSE /\ pc' = u.pc
                            /\ upl' = u.upl
                            /\ rx' = frames
                            /\ ci' = 0
                            /\ gi' = 0
                            /\ stack' = <<>>
                            /\ wire' = wire \o read \o u.tx
                            /\ UNCHANGED <<err, prev_abort, repo>>

\* Want arrives.
RecvWant ==
  /\ pc = "want"
  /\ rx # <<>>
  /\ IF Head(rx).tag = "Want"
     THEN /\ want' = Head(rx).data
          /\ IF Head(rx).data = <<>>
             THEN /\ UNCHANGED <<objects, head_ref>>
                  /\ IF mode = "clone"
                     THEN /\ pc' = "done"
                          /\ rx' = Tail(rx)
                          /\ wire' = wire \o RxHead
                          /\ UNCHANGED <<err, prev_abort, ci, gi, stack, upl, repo>>
                     ELSE LET u == EnterUpload(objects) IN
                          IF u.pc = "failed"
                          THEN Fail(u.err)
                          ELSE /\ pc' = u.pc
                               /\ upl' = u.upl
                               /\ rx' = Tail(rx)
                               /\ wire' = wire \o RxHead \o u.tx
                               /\ UNCHANGED <<err, prev_abort, ci, gi, stack, repo>>
             ELSE /\ pc' = "commit"
                  /\ ci' = 1
                  /\ rx' = Tail(rx)
                  /\ wire' = wire \o RxHead \o <<Tx(Get(Head(rx).data[1]))>>
                  /\ UNCHANGED <<objects, head_ref, err, prev_abort, gi, stack, upl, repo>>
     ELSE /\ Fail("want")
          /\ UNCHANGED <<objects, head_ref, want>>
  /\ UNCHANGED <<local, nsess, snaps, puts, mode, opened, local_commits, ndev>>

\* The reply to Get(commit_id) of the commit loop arrives.
RecvCommit ==
  /\ pc = "commit"
  /\ rx # <<>>
  /\ UNCHANGED want
  /\ IF Head(rx).tag = "ObjectHeader"
     THEN LET r == recv_object_data(Tail(rx), Head(rx).size)
              s == store_received_object(objects, Head(rx).id, Head(rx).otype, r.data)
          IN IF ~r.ok
             THEN Fail(r.err) /\ UNCHANGED <<objects, head_ref>>
             ELSE IF mode = "clone" /\ ~s.ok
                  THEN Fail("store") /\ UNCHANGED <<objects, head_ref>>
                  ELSE IF ci < Len(want)
                       THEN /\ objects' = s.store
                            /\ ci' = ci + 1
                            /\ rx' = r.rest
                            /\ wire' = wire \o RxObject(r.data) \o <<Tx(Get(want[ci + 1]))>>
                            /\ UNCHANGED <<head_ref, pc, err, prev_abort, gi, stack, upl, repo>>
                       ELSE Continue(s.store, 1, <<>>, r.rest, RxObject(r.data))
     ELSE Fail("reply") /\ UNCHANGED <<objects, head_ref>>
  /\ UNCHANGED <<local, nsess, snaps, puts, mode, opened, local_commits, ndev>>

\* The reply to GetTree, GetFile or Get(chunk) of the pending call arrives.
RecvObject ==
  /\ pc = "object"
  /\ rx # <<>>
  /\ UNCHANGED want
  /\ LET t == Head(stack)
         h == Head(rx)
         r == recv_object_data(Tail(rx), h.size)
         s == store_received_object(objects, h.id, h.otype, r.data)
     IN IF h.tag # "ObjectHeader"
        THEN Fail("reply") /\ UNCHANGED <<objects, head_ref>>
        ELSE IF t.kind # "chunk" /\ h.otype # t.kind
             THEN Fail("type") /\ UNCHANGED <<objects, head_ref>>
             ELSE IF ~r.ok
                  THEN Fail(r.err) /\ UNCHANGED <<objects, head_ref>>
                  ELSE IF t.kind = "chunk"
                       THEN Continue(store_object_with_id(objects, h.id, r.data), gi,
                                     Tail(stack), r.rest, RxObject(r.data))
                       ELSE IF ~s.ok
                            THEN Fail("store") /\ UNCHANGED <<objects, head_ref>>
                            ELSE IF t.kind = "tree"
                                 THEN Continue(s.store, gi,
                                               EntryTasks(ParseDirectory(r.data)) \o Tail(stack),
                                               r.rest, RxObject(r.data))
                                 ELSE Continue(s.store, gi,
                                               <<Task("chunk", ParseFile(r.data).root_chunk_id)>>
                                                 \o Tail(stack),
                                               r.rest, RxObject(r.data))
  /\ UNCHANGED <<local, nsess, snaps, puts, mode, opened, local_commits, ndev>>

\* A serve step that sends whatever object the server names.
ServeObjectUnchecked(store, all_objects_to_upload, requested_id) ==
  LET l == load_local_object(store, requested_id) IN
  IF l.ok
  THEN [ok |-> TRUE, err |-> "",
        tx |-> <<Tx(ObjectHeader(requested_id, l.otype, Len(l.data)))>>
                 \o [i \in DOMAIN send_object_data(l.data) |->
                       Tx(send_object_data(l.data)[i])]]
  ELSE [ok |-> FALSE, err |-> "Failed to load local object", tx |-> <<>>]

\* The serve loop's answer to SendObject(requested_id): an error for an id
\* that is not in all_objects_to_upload or cannot be loaded, else the
\* ObjectHeader and the data.
ServeObject(store, all_objects_to_upload, requested_id) ==
  IF ~InSeq(requested_id, all_objects_to_upload)
  THEN [ok |-> FALSE, err |-> "Server requested unexpected object", tx |-> <<>>]
  ELSE LET l == load_local_object(store, requested_id) IN
       IF l.ok
       THEN [ok |-> TRUE, err |-> "",
             tx |-> <<Tx(ObjectHeader(requested_id, l.otype, Len(l.data)))>>
                      \o [i \in DOMAIN send_object_data(l.data) |->
                            Tx(send_object_data(l.data)[i])]]
       ELSE [ok |-> FALSE, err |-> "Failed to load local object", tx |-> <<>>]

\* The serve loop of the upload phase: SendObject, Ok or Error arrives.
RecvUpload ==
  /\ pc = "upload"
  /\ rx # <<>>
  /\ IF Head(rx).tag = "SendObject"
     THEN LET s == ServeObject(objects, upl, Head(rx).id) IN
          IF s.ok
          THEN /\ rx' = Tail(rx)
               /\ wire' = wire \o RxHead \o s.tx
               /\ UNCHANGED <<pc, err, prev_abort, ci, gi, stack, upl, repo>>
          ELSE Fail(s.err)
     ELSE IF Head(rx).tag = "Ok"
          THEN /\ pc' = "ready"
               /\ rx' = Tail(rx)
               /\ upl' = <<>>
               /\ wire' = wire \o RxHead \o <<Tx(Ready)>>
               /\ UNCHANGED <<err, prev_abort, ci, gi, stack, repo>>
          ELSE Fail("upload")
  /\ UNCHANGED <<objects, head_ref, local, nsess, snaps, puts, mode, opened, local_commits, want,
                 ndev>>

\* Finalization: the reply to Ready arrives.
RecvReady ==
  /\ pc = "ready"
  /\ rx # <<>>
  /\ IF Head(rx).tag = "Ok"
     THEN /\ pc' = "done"
          /\ rx' = <<>>
          /\ head_ref' = IF mode = "clone" THEN update_head_after_sync(head_ref, want)
                         ELSE head_ref
          /\ wire' = wire \o RxHead
          /\ UNCHANGED <<err, prev_abort, ci, gi, stack, upl, repo>>
     ELSE Fail("ready") /\ UNCHANGED head_ref
  /\ UNCHANGED <<objects, local, nsess, snaps, puts, mode, opened, local_commits, want, ndev>>

(***************************************************************************)
(* The server answers the request the client is waiting on.                *)
(***************************************************************************)
\* Want lists of commits the client lacks, and Want lists that name the
\* commit the client announced in Have.
HonestWants == {<<>>} \cup {<<RemoteCommitId>> : x \in {y \in {1} : ~InSeq(RemoteCommitId, local_commits)}}

DeviantWants == {local_commits, <<RemoteCommitId>> \o local_commits} \ HonestWants

RequestedKind == IF pc = "commit" THEN "commit" ELSE Head(stack).kind
RequestedId == IF pc = "commit" THEN want[ci] ELSE Head(stack).id

\* The objects the client has uploaded in this session.
Uploaded == {i \in DOMAIN wire : wire[i].dir = "tx" /\ wire[i].f.tag = "ObjectHeader"}

\* The ids the server asks for in the serve loop: the first and the last
\* object of the closure while fewer than MaxUploads objects were uploaded,
\* and one id outside the closure.
Requestable ==
  {x \in {upl[1], upl[Len(upl)], RemoteCommitId} :
     InSeq(x, upl) => Cardinality(Uploaded) < MaxUploads}

ServerReply ==
  /\ InSession
  /\ rx = <<>>
  /\ \/ /\ pc = "auth"
        /\ rx' \in {<<AuthResult(TRUE)>>, <<AuthResult(FALSE)>>, <<ErrorFrame("")>>,
                    <<OkFrame>>}
        /\ UNCHANGED ndev
     \/ /\ pc \in {"select", "create"}
        /\ rx' \in {<<RepositorySelected>>, <<ErrorFrame("not found")>>, <<OkFrame>>}
        /\ UNCHANGED ndev
     \/ /\ pc = "list"
        /\ rx' \in {<<RepositoryList>>, <<ErrorFrame("")>>}
        /\ UNCHANGED ndev
     \/ /\ pc = "want"
        /\ \/ /\ rx' \in {<<WantFrame(l)>> : l \in HonestWants} \cup {<<ErrorFrame("")>>}
              /\ UNCHANGED ndev
           \/ /\ ndev < MaxDeviations
              /\ rx' \in {<<WantFrame(l)>> : l \in DeviantWants}
              /\ ndev' = ndev + 1
     \/ /\ pc \in {"commit", "object"}
        /\ \/ /\ rx' \in HonestReplies(RequestedId)
              /\ UNCHANGED ndev
           \/ /\ ndev < MaxDeviations
              /\ rx' \in DeviantReplies(RequestedKind, RequestedId)
              /\ ndev' = ndev + 1
     \/ /\ pc = "upload"
        /\ rx' \in {<<SendObject(id)>> : id \in Requestable}
                     \cup {<<OkFrame>>, <<ErrorFrame("")>>}
        /\ UNCHANGED ndev
     \/ /\ pc = "ready"
        /\ rx' \in {<<OkFrame>>, <<ErrorFrame("")>>}
        /\ UNCHANGED ndev
  /\ UNCHANGED <<objects, head_ref, local, nsess, snaps, puts, pc, mode, opened, repo,
                 local_commits, want, ci, gi, stack, upl, err, prev_abort, wire>>

(***************************************************************************)
(* One object on the stream: the sender has written the ObjectHeader with  *)
(* size |d| and calls send_object_data(d); the receiver has read the       *)
(* header and calls recv_object_data(|d|).  Other frames follow on the     *)
(* stream.                                                                 *)
(***************************************************************************)
\* The bytes sent: n tokens, the i-th being (i * step) % 251.
Bytes(n, step) == [i \in 1..n |-> (i * step) % 251]

\* The lengths sent: 0, 2, and one below, at and one above every multiple of
\* the chunk size up to MaxChunks chunks.
TransferLengths ==
  {n \in UNION {{k * CHUNK_SIZE - 1, k * CHUNK_SIZE, k * CHUNK_SIZE + 1} : k \in 0..MaxChunks} :
     n >= 0} \cup {2}

TransferData == {Bytes(n, step) : n \in TransferLengths, step \in {0, 1, 7}}

\* What is on the stream behind the object.
TransferTails ==
  {<<>>, <<OkFrame>>, <<ObjectData(<<9>>)>>, <<ObjectHeader(5, "chunk", 1), ObjectData(<<9>>)>>}

InitFraming ==
  /\ InitRepository
  /\ worktree = InitWorktree
  /\ \E d \in TransferData, tl \in TransferTails :
       chan = [st |-> "header", d |-> d, stream |-> tl, tail |-> tl, ok |-> FALSE,
               data |-> <<>>]
  /\ text = NoText

all_but_chan == <<objects, head_ref, index, worktree, clock, nsnap, nedit, nstatus, nsess,
                  snaps, puts, pc, mode, opened, repo, local_commits, want, ci, gi, stack, upl, rx,
                  err, prev_abort, ndev, partial, naborted, runs, wire, report, base,
                  nrevert, ncheckout, text>>

\* The sender writes the data frames; the frames already queued follow them.
SendData ==
  /\ chan.st = "header"
  /\ chan' = [chan EXCEPT !.st = "sent", !.stream = send_object_data(chan.d) \o chan.tail]
  /\ UNCHANGED all_but_chan

\* The receiver reads the object.
RecvData ==
  /\ chan.st = "sent"
  /\ LET r == recv_object_data(chan.stream, Len(chan.d)) IN
     chan' = [chan EXCEPT !.st = "read", !.stream = r.rest, !.ok = r.ok, !.data = r.data]
  /\ UNCHANGED all_but_chan

NextFraming ==
  \/ SendData
  \/ RecvData

SpecFraming == InitFraming /\ [][NextFraming]_vars

\* The working trees the local commands start from: two files in two
\* directories, no file, two files with the same bytes in one directory.
StatusTrees ==
  {InitWorktree, NoFiles,
   [p \in {<<NameA>>, <<NameB>>} |-> [data |-> <<1>>, mtime |-> 0]]}

InitStatus ==
  /\ InitRepository
  /\ worktree \in StatusTrees
  /\ chan = NoTransfer
  /\ text = NoText

\* Snapshots, status, revert and edits of the working tree.
NextStatus ==
  \/ SaveSnapshot
  \/ SaveSnapshotIndexUnsaved
  \/ CheckStatus
  \/ RevertFiles
  \/ WriteFile
  \/ DeleteFile
  \/ Tick

SpecStatus == InitStatus /\ [][NextStatus]_vars

\* Snapshots, one of which may be killed inside a write, edits of the
\* working tree, and checkouts.
NextCheckout ==
  \/ SaveSnapshot
  \/ SaveSnapshotCrash
  \/ WriteFile
  \/ DeleteFile
  \/ CheckoutCommit

SpecCheckout == Init /\ [][NextCheckout]_vars

\* main: the arm of the command prints the error its operation returned, and
\* main returns Ok(()) after the match, whatever the arm did.
main(command_ok) == [stderr |-> ~command_ok, exit_code |-> 0]

(***************************************************************************)
(* URLs.  A string is the sequence of its characters.                      *)
(***************************************************************************)
\* str::starts_with, str::ends_with, str::contains with a string pattern
starts_with(s, pat) == Len(pat) <= Len(s) /\ SubSeq(s, 1, Len(pat)) = pat

ends_with(s, pat) ==
  Len(pat) <= Len(s) /\ SubSeq(s, Len(s) - Len(pat) + 1, Len(s)) = pat

contains(s, pat) ==
  \E i \in 1..(Len(s) - Len(pat) + 1) : SubSeq(s, i, i + Len(pat) - 1) = pat

\* str::trim_start_matches, str::trim_end_matches: the pattern is removed as
\* often as it is found at the start (the end).
RECURSIVE trim_start_matches(_, _)
trim_start_matches(s, pat) ==
  IF pat # <<>> /\ starts_with(s, pat)
  THEN trim_start_matches(SubSeq(s, Len(pat) + 1, Len(s)), pat)
  ELSE s

RECURSIVE trim_end_matches(_, _)
trim_end_matches(s, pat) ==
  IF pat # <<>> /\ ends_with(s, pat)
  THEN trim_end_matches(SubSeq(s, 1, Len(s) - Len(pat)), pat)
  ELSE s

\* str::find, str::rfind of one character: its first (last) position, 0 for
\* None.
find(s, c) ==
  IF \E i \in DOMAIN s : s[i] = c
  THEN CHOOSE i \in DOMAIN s : s[i] = c /\ \A j \in 1..(i - 1) : s[j] # c
  ELSE 0

rfind(s, c) ==
  IF \E i \in DOMAIN s : s[i] = c
  THEN CHOOSE i \in DOMAIN s : s[i] = c /\ \A j \in (i + 1)..Len(s) : s[j] # c
  ELSE 0

\* The part of s behind position i.
After(s, i) == SubSeq(s, i + 1, Len(s))

Digits == <<"0", "1", "2", "3", "4", "5", "6", "7", "8", "9">>

DigitValue(c) == (CHOOSE i \in DOMAIN Digits : Digits[i] = c) - 1

RECURSIVE Decimal(_)
Decimal(s) ==
  IF s = <<>> THEN 0
  ELSE 10 * Decimal(SubSeq(s, 1, Len(s) - 1)) + DigitValue(s[Len(s)])

\* str::parse::<u16>
parse_u16(s) ==
  IF s # <<>> /\ (\A i \in DOMAIN s : InSeq(s[i], Digits)) /\ Decimal(s) < 65536
  THEN [ok |-> TRUE, value |-> Decimal(s)]
  ELSE [ok |-> FALSE, value |-> 0]

HTTPS == <<"h", "t", "t", "p", "s", ":", "/", "/">>
HTTP == <<"h", "t", "t", "p", ":", "/", "/">>
ORBITS == <<"o", "r", "b", "i", "t", "s", ":", "/", "/">>
ORBIT == <<"o", "r", "b", "i", "t", ":", "/", "/">>
DOT_GIT == <<".", "g", "i", "t">>

\* client_tls::requires_tls
requires_tls(url) ==
  \/ starts_with(url, HTTPS)
  \/ starts_with(url, ORBITS)
  \/ contains(url, <<":", "4", "4", "3">>)
  \/ contains(url, <<":", "8", "4", "4", "3">>)

\* OrbitUrl::parse.  repository is <<>> for None and <<r>> for Some(r).
OrbitUrl_parse(url) ==
  LET use_tls == requires_tls(url)
      clean_url == trim_start_matches(trim_start_matches(trim_start_matches(
                     trim_start_matches(url, HTTPS), HTTP), ORBITS), ORBIT)
      colon_pos == find(clean_url, ":")
      slash_pos == find(clean_url, "/")
      remainder == After(clean_url, colon_pos)
      port_str == IF find(remainder, "/") # 0
                  THEN SubSeq(remainder, 1, find(remainder, "/") - 1)
                  ELSE remainder
      host == IF colon_pos # 0 THEN SubSeq(clean_url, 1, colon_pos - 1)
              ELSE IF slash_pos # 0 THEN SubSeq(clean_url, 1, slash_pos - 1)
              ELSE clean_url
      port == IF colon_pos # 0 THEN parse_u16(port_str).value
              ELSE IF use_tls THEN 443 ELSE 8080
      repository == IF slash_pos = 0 THEN <<>>
                    ELSE IF colon_pos # 0
                         THEN IF find(remainder, "/") # 0
                              THEN <<After(remainder, find(remainder, "/"))>>
                              ELSE <<>>
                         ELSE <<After(clean_url, slash_pos)>>
  IN IF colon_pos # 0 /\ ~parse_u16(port_str).ok THEN [ok |-> FALSE]
     ELSE [ok |-> TRUE, host |-> host, port |-> port, use_tls |-> use_tls,
           server_name |-> host, repository |-> repository]

\* fetch::extract_repo_name
extract_repo_name(url) ==
  LET trimmed == trim_end_matches(url, <<"/">>)
      name == trim_end_matches(After(trimmed, rfind(trimmed, "/")), DOT_GIT)
  IN IF name = <<>> THEN [ok |-> FALSE] ELSE [ok |-> TRUE, name |-> name]

\* The URLs given to sync, clone and list-repos:
\* [scheme://]host[:port][/repository-path].
Schemes == {<<>>, HTTPS, HTTP, ORBITS, ORBIT}
Ports == {<<>>, <<"4", "4", "3">>, <<"8", "4", "4", "3">>, <<"8", "0", "8", "0">>,
          <<"4", "4", "3", "0">>}
RepositoryPaths == {<<>>, <<<<"r">>>>, <<<<"r", "/", "s">>>>}

OrbitUrls ==
  {[kind |-> "orbit", scheme |-> s, host |-> <<"h">>, port |-> p, path |-> r] :
     s \in Schemes, p \in Ports, r \in RepositoryPaths}

\* The URLs given to fetch: https, plain and scp-style, the repository named
\* with and without .git, with and without trailing slashes.
GitPrefixes == {<<>>, <<"h", "/", "u", "/">>, HTTPS \o <<"h", "/", "u", "/">>,
                <<"g", "@", "h", ":", "u", "/">>}
GitNames == {<<>>, <<"r">>, <<"r">> \o DOT_GIT, <<"r">> \o DOT_GIT \o DOT_GIT, DOT_GIT}
GitTrailers == {<<>>, <<"/">>, <<"/", "/">>}

GitUrls ==
  {[kind |-> "git", prefix |-> a, name |-> n, trailer |-> z] :
     a \in GitPrefixes, n \in GitNames, z \in GitTrailers}

\* The string of a URL given by its parts.
UrlString(u) ==
  IF u.kind = "orbit"
  THEN u.scheme \o u.host \o (IF u.port = <<>> THEN <<>> ELSE <<":">> \o u.port)
         \o (IF u.path = <<>> THEN <<>> ELSE <<"/">> \o u.path[1])
  ELSE u.prefix \o u.name \o u.trailer

InitUrl ==
  /\ InitRepository
  /\ worktree = InitWorktree
  /\ chan = NoTransfer
  /\ \E u \in OrbitUrls \cup GitUrls :
       text = [st |-> "given", parts |-> u, url |-> UrlString(u), out |-> [ok |-> FALSE]]

all_but_text == <<objects, head_ref, index, worktree, clock, nsnap, nedit, nstatus, nsess,
                  snaps, puts, pc, mode, opened, repo, local_commits, want, ci, gi, stack,
                  upl, rx, err, prev_abort, ndev, partial, naborted, runs, wire, report,
                  base, nrevert, ncheckout, chan>>

\* run_sync, clone_repository, list_repositories: the URL is parsed first.
ParseUrl ==
  /\ text.st = "given"
  /\ text.parts.kind = "orbit"
  /\ text' = [text EXCEPT !.st = "parsed", !.out = OrbitUrl_parse(text.url)]
  /\ UNCHANGED all_but_text

\* fetch_git_repository: the name of the target directory is taken from the
\* URL first.
ExtractRepoName ==
  /\ text.st = "given"
  /\ text.parts.kind = "git"
  /\ text' = [text EXCEPT !.st = "named", !.out = extract_repo_name(text.url)]
  /\ UNCHANGED all_but_text

NextUrl ==
  \/ ParseUrl
  \/ ExtractRepoName

SpecUrl == InitUrl /\ [][NextUrl]_vars

NextLocal ==
  \/ SaveSnapshot
  \/ CheckStatus
  \/ WriteFile
  \/ DeleteFile
  \/ Tick

SpecLocal == Init /\ [][NextLocal]_vars

\* Snapshots of which one returns an error or is killed.
NextAborted ==
  \/ SaveSnapshot
  \/ SaveSnapshotFails
  \/ SaveSnapshotCrash
  \/ WriteFile

SpecAborted == Init /\ [][NextAborted]_vars

NextConcurrent ==
  \/ ConcBegin
  \/ ConcExists
  \/ ConcCreate
  \/ ConcWrite
  \/ ConcHeadCreate
  \/ ConcHeadWrite
  \/ Tick

SpecConcurrent == Init /\ [][NextConcurrent]_vars

Next ==
  \/ SaveSnapshot
  \/ StartSession
  \/ Abort
  \/ RecvAuth
  \/ RecvSelect
  \/ RecvList
  \/ RecvWant
  \/ RecvCommit
  \/ RecvObject
  \/ RecvUpload
  \/ RecvReady
  \/ ServerReply

Spec == Init /\ [][Next]_vars

(***************************************************************************)
(* The object graph as the store holds it.                                 *)
(***************************************************************************)
\* The objects a stored object refers to, each with the kind its referrer
\* gives it; an absent or unparsable object refers to nothing.
Refs(store, t) ==
  IF t.id \notin DOMAIN store THEN {}
  ELSE IF t.kind = "commit" /\ ParsesAsCommit(store[t.id])
       THEN {Task("tree", ParseCommit(store[t.id]).tree)}
       ELSE IF t.kind = "tree" /\ ParsesAsDirectory(store[t.id])
            THEN Range(EntryTasks(ParseDirectory(store[t.id])))
            ELSE IF t.kind = "file" /\ ParsesAsFile(store[t.id])
                 THEN {Task("chunk", ParseFile(store[t.id]).root_chunk_id)}
                 ELSE {}

RECURSIVE Closure(_, _, _)
Closure(store, frontier, seen) ==
  IF frontier = {} THEN seen
  ELSE Closure(store,
               UNION {Refs(store, t) : t \in frontier} \ (seen \cup frontier),
               seen \cup frontier)

\* Every object transitively referenced from the commit exists in the store.
GraphComplete(store, commit_id) ==
  \A t \in Closure(store, {Task("commit", commit_id)}, {}) : t.id \in DOMAIN store

(***************************************************************************)
(* Claims.                                                                 *)
(***************************************************************************)
\* C1: in every reachable state, every id that has bytes stored under it is
\* the digest of exactly those bytes.
C1_ContentAddressed == \A o \in DOMAIN objects : hash_data(objects[o]) = o

\* C2: after put(b) has returned digest(b), with its filesystem calls
\* succeeding, the object stored at digest(b) reads back as exactly b.
C2_PutThenGet ==
  \A p \in puts : p.write_ok => p.id \in DOMAIN objects /\ objects[p.id] = p.data

\* C3: once bytes are stored under an id, no step changes or removes the
\* bytes stored under that id.
C3_Immutable ==
  [][\A o \in DOMAIN objects : o \in DOMAIN objects' /\ objects'[o] = objects[o]]_vars

\* C4: of two consecutive successful snapshots the second commit's parents
\* are exactly the first commit's id; the first snapshot has no parents.
C4_ParentIsPreviousTip ==
  /\ Len(snaps) >= 1 => (nsnap = 1 => snaps[1].parents = <<>>)
  /\ Len(snaps) = 2 => snaps[2].parents = <<snaps[1].oid>>

\* C5: after a session that completed successfully, every commit of the Want
\* list and everything transitively reachable from it exists in the store.
C5_GraphClosure ==
  pc = "done" => \A c \in Range(want) : GraphComplete(objects, c)

\* C6: when a download session of an empty repository was cut off and the
\* next session, for the same Want list and with every reply as the protocol
\* prescribes, completes successfully, the store holds the whole graph of
\* every commit of the Want list.
C6_ResumeCompletes ==
  (pc = "done" /\ ndev = 0 /\ nsnap = 0 /\ prev_abort # <<>> /\ want = prev_abort)
    => \A c \in Range(want) : GraphComplete(objects, c)

\* C7: after every save_snapshot that returned success the tip names a
\* commit present in the store together with everything it references.
C7_TipGraphPresent ==
  head_ref # <<>> => GraphComplete(objects, head_ref[1])

\* C8: in every session that ended in failure the tip equals its value
\* before the session.
C8_FailedSessionKeepsTip == pc = "failed" => head_ref = local_commits

\* The frames in flight are an ObjectHeader, ObjectData frames carrying
\* fewer bytes than the header announces, then a frame that is not
\* ObjectData.
RECURSIVE DataPrefix(_)
DataPrefix(frames) ==
  IF frames = <<>> \/ Head(frames).tag # "ObjectData" THEN [bytes |-> 0, rest |-> frames]
  ELSE LET d == DataPrefix(Tail(frames))
       IN [bytes |-> Len(Head(frames).data) + d.bytes, rest |-> d.rest]

ShortReply(frames) ==
  /\ frames # <<>>
  /\ Head(frames).tag = "ObjectHeader"
  /\ DataPrefix(Tail(frames)).bytes < Head(frames).size
  /\ DataPrefix(Tail(frames)).rest # <<>>

\* C9: when the reply to a Get, GetTree or GetFile is a header announcing N
\* bytes, fewer than N bytes of ObjectData and then another frame, the step
\* that reads it ends the session in failure, writes no object and leaves
\* the tip as it was when the session began.
C9_ShortDataFails ==
  [][(pc \in {"commit", "object"} /\ ShortReply(rx))
       => /\ pc' = "failed"
          /\ err' \in {"Expected ObjectData", "Server error", "type"}
          /\ objects' = objects
          /\ head_ref' = head_ref
          /\ head_ref' = local_commits]_vars

\* C9 witness: a session failed on a frame that was not ObjectData while
\* bytes of an announced object were outstanding, after it had stored objects.
C9_Witness ==
  pc = "failed" /\ err = "Expected ObjectData" /\ objects # EmptyStore
    /\ head_ref = local_commits

\* C10: for the header and frames in flight, recv_object_data returns
\* exactly as many bytes as the header announces, or fails.
C10_ExactLength ==
  (pc \in {"commit", "object"} /\ rx # <<>> /\ Head(rx).tag = "ObjectHeader")
    => LET r == recv_object_data(Tail(rx), Head(rx).size)
       IN r.ok => Len(r.data) = Head(rx).size

\* C11: a save_snapshot that returns the error of a read of the working tree
\* leaves the tip as it was, removes or changes no stored object, and the
\* objects its save_object calls wrote before the error are in the store.
C11_FailedSnapshotKeepsTip ==
  [][(pc' = "failed" /\ err' = "read")
       => /\ head_ref' = head_ref
          /\ \A o \in DOMAIN objects : o \in DOMAIN objects' /\ objects'[o] = objects[o]
          /\ \A p \in puts' : p.write_ok => p.id \in DOMAIN objects']_vars

\* C11 witness: a snapshot failed after a tip existed, and a save_object call
\* of the failed run wrote an object that is not reachable from the tip.
C11_Witness ==
  /\ pc = "failed"
  /\ err = "read"
  /\ head_ref # <<>>
  /\ \E p \in puts :
       /\ p.write_ok
       /\ p.id \in DOMAIN objects
       /\ \A t \in Closure(objects, {Task("commit", head_ref[1])}, {}) : t.id # p.id

\* C12: when a put of b was cut short after its file was created, a later
\* save_object(b) whose write does not fail leaves exactly b under digest(b).
C12_RetryRepeatsWrite ==
  \A p \in puts :
    (p.write_ok /\ p.id \in partial) => (p.id \in DOMAIN objects /\ objects[p.id] = p.data)

\* C19: after a snapshot all of whose writes succeeded (and with no file left
\* partly written), the closure walk of the upload phase from the tip
\* succeeds and collects exactly the objects of the snapshot: the commit, the
\* trees, the File objects and the root chunks.
C19_WalkCollectsClosure ==
  (/\ pc = "idle"
   /\ partial = {}
   /\ head_ref # <<>>
   /\ \E p \in puts : p.id = head_ref[1]
   /\ \A p \in puts : p.write_ok)
    => LET w == UploadClosure(objects, head_ref, <<>>)
       IN w.ok /\ Range(w.all) = {p.id : p \in puts}

\* C20: with no file left partly written, load_local_object returns a type
\* for every stored object, and "chunk" for those that parse neither as
\* Commit nor as Tree nor as File.
C20_ClassifierTotal ==
  partial = {}
    => \A id \in DOMAIN objects :
         LET l == load_local_object(objects, id) IN
         /\ l.ok
         /\ (~ParsesAsCommit(objects[id]) /\ ~ParsesAsDirectory(objects[id])
               /\ ~ParsesAsFile(objects[id])) => l.otype = "chunk"

\* C13: once one of two interleaved save_snapshot runs has completed, a
\* non-empty tip is the id of the commit of one of the two runs, and every
\* object that run saved (commit, trees, File objects, chunks) is in the
\* store with its bytes.
C13_TipNamesPresentCommit ==
  ((\E r \in Runs : runs[r].st = "done") /\ head_ref # <<>>)
    => \E q \in Runs :
         /\ runs[q].st # "idle"
         /\ head_ref = <<runs[q].commit_id>>
         /\ \A i \in DOMAIN runs[q].saved :
              /\ hash_data(runs[q].saved[i]) \in DOMAIN objects
              /\ objects[hash_data(runs[q].saved[i])] = runs[q].saved[i]


(***************************************************************************)
(* The order of the frames of a session.                                   *)
(***************************************************************************)
\* The positions of the log w at which the client sent a frame with tag t.
Sent(w, t) == {i \in DOMAIN w : w[i].dir = "tx" /\ w[i].f.tag = t}

\* The positions of the log w at which the client read a frame with tag t.
Read(w, t) == {i \in DOMAIN w : w[i].dir = "rx" /\ w[i].f.tag = t}

\* The positions of the log w at which the client sent a request for an object.
Requests(w) == Sent(w, "Get") \cup Sent(w, "GetTree") \cup Sent(w, "GetFile")

\* C14: in every session (sync, clone, list-repos) the first frame sent is
\* Authenticate; every other frame is sent after AuthResult{success=true}
\* was read; with a repository name given, Have is sent only by the step
\* that reads RepositorySelected; and any reply to Authenticate other than
\* AuthResult{success=true} ends the session in failure with the store, the
\* index and the tip unchanged.
C14_AuthenticateFirst ==
  [][/\ wire' # <<>> => wire'[1] = Tx(Authenticate)
     /\ \A i \in DOMAIN wire' :
          (wire'[i].dir = "tx" /\ wire'[i].f.tag # "Authenticate")
            => \E j \in 1..(i - 1) : wire'[j] = Rx(AuthResult(TRUE))
     /\ (repo /\ Sent(wire', "Have") # {} /\ Sent(wire, "Have") = {})
          => (rx # <<>> /\ Head(rx).tag = "RepositorySelected")
     /\ (pc = "auth" /\ rx # <<>> /\ Head(rx) # AuthResult(TRUE) /\ rx' # rx)
          => (pc' = "failed" /\ UNCHANGED <<objects, index, head_ref>>)]_vars

\* A session of a client with a snapshot was refused at authentication.
C14_Witness ==
  /\ pc = "failed"
  /\ err = "auth"
  /\ head_ref # <<>>
  /\ head_ref = local_commits


\* C15: every sync or clone session that returns success has, as its last
\* exchange, sent Ready and read Ok, whatever Want list the server sent.
C15_SuccessEndsWithReady ==
  (pc = "done" /\ mode \in {"sync", "clone"})
    => /\ Len(wire) >= 2
       /\ wire[Len(wire) - 1] = Tx(Ready)
       /\ wire[Len(wire)] = Rx(OkFrame)


\* C16: within a session the client has at most one outstanding request: a
\* step sends at most one request; while objects are downloaded the requests
\* sent are one more than the object headers read; and a step that reads the
\* reply to a request sends its next frame only when the reply is an
\* ObjectHeader followed by at least size bytes of ObjectData.
C16_OneOutstandingRequest ==
  [][/\ Cardinality(Requests(wire')) <= Cardinality(Requests(wire)) + 1
     /\ pc' \in {"commit", "object"}
          => Cardinality(Requests(wire')) = Cardinality(Read(wire', "ObjectHeader")) + 1
     /\ (pc \in {"commit", "object"} /\ wire' # wire /\ wire' # <<>>)
          => /\ rx # <<>>
             /\ Head(rx).tag = "ObjectHeader"
             /\ DataPrefix(Tail(rx)).bytes >= Head(rx).size]_vars

\* A download that has consumed two objects and waits for a third.
C16_Witness ==
  /\ pc = "object"
  /\ rx = <<>>
  /\ Cardinality(Read(wire, "ObjectHeader")) >= 2
  /\ wire[Len(wire)].dir = "tx"


\* C17: the frames a sync client sends follow the phases of the session:
\* Have is sent at most once, exactly once from the negotiation on, and
\* before every Get, GetTree and GetFile; each of these is sent after Want
\* was read and before Push; Push is sent at most once and before every
\* uploaded ObjectHeader and ObjectData; Ready is the last frame sent and,
\* when Push was sent, follows an Ok read after Push.
C17_SyncPhaseOrder ==
  (mode = "sync" /\ wire # <<>>)
    => /\ Cardinality(Sent(wire, "Have")) <= 1
       /\ pc \in {"want", "commit", "object", "upload", "ready", "done"}
            => Cardinality(Sent(wire, "Have")) = 1
       /\ \A g \in Requests(wire) :
            /\ \E h \in Sent(wire, "Have") : h < g
            /\ \E w \in Read(wire, "Want") : w < g
            /\ \A p \in Sent(wire, "Push") : g < p
       /\ Cardinality(Sent(wire, "Push")) <= 1
       /\ \A u \in Sent(wire, "ObjectHeader") \cup Sent(wire, "ObjectData") :
            \E p \in Sent(wire, "Push") : p < u
       /\ \A r \in Sent(wire, "Ready") :
            /\ \A i \in DOMAIN wire : wire[i].dir = "tx" => i <= r
            /\ \A p \in Sent(wire, "Push") : \E k \in Read(wire, "Ok") : p < k /\ k < r

\* A sync that downloaded a commit, pushed its own, uploaded an object and
\* was finalized.
C17_Witness ==
  /\ mode = "sync"
  /\ pc = "done"
  /\ Requests(wire) # {}
  /\ Sent(wire, "Push") # {}
  /\ Sent(wire, "ObjectHeader") # {}
  /\ Sent(wire, "ObjectData") # {}


\* The bytes of the ObjectData frames of the log w from position i on.
RECURSIVE SentBytes(_, _)
SentBytes(w, i) == IF i > Len(w) THEN <<>> ELSE w[i].f.data \o SentBytes(w, i + 1)

\* C18: the serve step that reads SendObject(oid) fails the session, sending
\* nothing, when oid is outside the closure computed before Push; for an oid
\* of the closure it sends ObjectHeader{id = oid, size = |bytes|} and then
\* ObjectData frames that carry exactly the stored bytes.
C18_ServeOnlyClosure ==
  [][(pc = "upload" /\ rx # <<>> /\ Head(rx).tag = "SendObject")
       => LET oid == Head(rx).id
              n == Len(wire)
          IN IF ~InSeq(oid, upl)
             THEN /\ pc' = "failed"
                  /\ err' = "Server requested unexpected object"
                  /\ Sent(wire', "ObjectHeader") = {}
                  /\ Sent(wire', "ObjectData") = {}
             ELSE /\ pc' = "upload"
                  /\ Len(wire') >= n + 2
                  /\ SubSeq(wire', 1, n) = wire
                  /\ wire'[n + 1] = Rx(SendObject(oid))
                  /\ wire'[n + 2].dir = "tx"
                  /\ wire'[n + 2].f.tag = "ObjectHeader"
                  /\ wire'[n + 2].f.id = oid
                  /\ wire'[n + 2].f.size = Len(objects[oid])
                  /\ \A i \in (n + 3)..Len(wire') :
                       wire'[i].dir = "tx" /\ wire'[i].f.tag = "ObjectData"
                  /\ SentBytes(wire', n + 3) = objects[oid]]_vars

\* A sync failed in its serve loop on a request for an object outside the
\* closure, with the downloaded commit in the store.
C18_Witness ==
  /\ pc = "failed"
  /\ err = "Server requested unexpected object"
  /\ mode = "sync"
  /\ RemoteCommitId \in DOMAIN objects

(***************************************************************************)
(* The download phase and the tip.                                         *)
(***************************************************************************)
\* C21: while objects are downloaded, the request the client has just sent
\* (Get for a commit of the Want list, GetTree, GetFile, Get for a chunk)
\* names an id that has no object in the local store.
C21_RequestsOnlyMissing ==
  (pc \in {"commit", "object"} /\ wire # <<>> /\ wire[Len(wire)].dir = "tx")
    => ~object_exists_locally(objects, wire[Len(wire)].f.id)

\* C22: once the download of a non-empty Want list has succeeded the tip is
\* the last id of the list (in a sync from the upload phase on, in a clone
\* when it returns success); a session that succeeds with an empty Want list
\* leaves the tip as it was; a peer with no tip that downloads the server's
\* commit ends with the server's tip.
C22_TipIsLastMissing ==
  /\ ((mode = "sync" /\ pc \in {"upload", "ready", "done"})
        \/ (mode = "clone" /\ pc = "done"))
       => /\ want # <<>> => head_ref = <<want[Len(want)]>>
          /\ want = <<>> => head_ref = local_commits
          /\ (local_commits = <<>> /\ want = <<RemoteCommitId>>)
               => head_ref = <<RemoteCommitId>>

\* A peer without a tip has synced the server's commit.
C22_Witness ==
  /\ mode = "sync"
  /\ pc = "done"
  /\ local_commits = <<>>
  /\ want = <<RemoteCommitId>>
  /\ head_ref = <<RemoteCommitId>>
  /\ GraphComplete(objects, RemoteCommitId)

(***************************************************************************)
(* Framing of one object.                                                  *)
(***************************************************************************)
\* The frames of the stream that lie before the frames queued behind the
\* object.
ObjectFrames == SubSeq(chan.stream, 1, Len(chan.stream) - Len(chan.tail))

RECURSIVE Concat(_)
Concat(frames) == IF frames = <<>> THEN <<>> ELSE Head(frames).data \o Concat(Tail(frames))

\* C23: for bytes d of every length (0, below, at and above the chunk size)
\* the frames send_object_data(d) writes are ObjectData frames of 1 to
\* CHUNK_SIZE bytes that lie together before whatever follows on the stream
\* and carry d; recv_object_data(|d|) returns exactly d and leaves exactly
\* the frames that followed.
C23_DataRoundTrip ==
  /\ chan.st = "sent"
       => /\ Len(chan.stream) >= Len(chan.tail)
          /\ SubSeq(chan.stream, Len(chan.stream) - Len(chan.tail) + 1, Len(chan.stream))
               = chan.tail
          /\ \A i \in DOMAIN ObjectFrames :
               /\ ObjectFrames[i].tag = "ObjectData"
               /\ Len(ObjectFrames[i].data) \in 1..CHUNK_SIZE
          /\ Concat(ObjectFrames) = chan.d
  /\ chan.st = "read"
       => /\ chan.ok
          /\ chan.data = chan.d
          /\ chan.stream = chan.tail

\* An object longer than two chunks was read whole and the message behind it was left.
C23_Witness ==
  /\ chan.st = "read"
  /\ chan.ok
  /\ Len(chan.d) > 2 * CHUNK_SIZE
  /\ chan.data = chan.d
  /\ chan.tail = <<OkFrame>>
  /\ chan.stream = <<OkFrame>>

(***************************************************************************)
(* Status, the index and revert.                                           *)
(***************************************************************************)
\* The index file holds what the last snapshot's traversal collected.
IndexCurrent == index = IndexOf(traverse_and_save_tree(base, <<>>).index)

\* The tracked files whose bytes differ from those of the last snapshot.
Rewritten == {p \in DOMAIN base \cap DOMAIN worktree : worktree[p].data # base[p].data}

\* Every file that was in the last snapshot and is in the working tree is
\* untouched since.
CommonUntouched == \A p \in DOMAIN base \cap DOMAIN worktree : worktree[p] = base[p]

\* C24: a status run on the working tree exactly as a successful snapshot
\* read it reports no Modified, no Deleted and no Untracked path.
C24_CleanAfterSnapshot ==
  (report.ran /\ nsnap > 0 /\ worktree = base)
    => (report.ok /\ report.changes = <<>>)

\* C25: after a snapshot whose index was written, when exactly one tracked
\* file has other bytes (of any size, written in any second) and nothing
\* else has changed, status reports that path as Modified and nothing else.
C25_ModifiedReported ==
  (/\ report.ran
   /\ nsnap > 0
   /\ IndexCurrent
   /\ DOMAIN worktree = DOMAIN base
   /\ Cardinality(Rewritten) = 1
   /\ \A p \in DOMAIN base \ Rewritten : worktree[p] = base[p])
    => (report.ok /\ \A p \in Rewritten :
                       report.changes = <<[path |-> p, status |-> "Modified"]>>)

\* C26: after a snapshot of any working tree (one with no files too) whose
\* index was written, when tracked files were deleted and new files added
\* and the others are untouched, status reports exactly the deleted paths
\* as Deleted and the new paths as Untracked, each once.
C26_DeletedAndUntracked ==
  (report.ran /\ nsnap > 0 /\ IndexCurrent /\ CommonUntouched)
    => /\ report.ok
       /\ Range(report.changes)
            = {[path |-> p, status |-> "Deleted"] : p \in DOMAIN base \ DOMAIN worktree}
                \cup {[path |-> p, status |-> "Untracked"] :
                        p \in DOMAIN worktree \ DOMAIN base}
       /\ Len(report.changes) = Cardinality(Range(report.changes))

\* C27: with a tip set by a snapshot, what status reports with the index the
\* snapshot wrote is what status reports with the index file absent.
C27_IndexLossHarmless ==
  (report.ran /\ head_ref # <<>> /\ nsnap > 0 /\ IndexCurrent)
    => Range(check_status([p \in {} |-> <<>>], worktree).changes) = Range(report.changes)

\* C28: after every snapshot that returned Ok the index file holds an entry
\* for exactly the files the snapshot read, each with the File id the new
\* tree records for its path.
C28_IndexMatchesSnapshot ==
  nsnap > 0
    => /\ DOMAIN index = DOMAIN base
       /\ \A p \in DOMAIN base :
            index[p].file_id = chunk_and_save_file(base[p].data).file_id

\* C29: the first snapshot of a working tree that holds two files with the
\* same bytes in its root directory and nothing else, every write
\* succeeding, gives the two files distinct File ids and leaves five objects
\* in the store: one chunk, two File objects, one tree, one commit.
C29_TwoFilesOneChunk ==
  (/\ nsnap = 1
   /\ nstatus = 0
   /\ \A x \in puts : x.write_ok
   /\ DOMAIN base = {<<NameA>>, <<NameB>>}
   /\ base[<<NameA>>].data = base[<<NameB>>].data)
    => /\ chunk_and_save_file(base[<<NameA>>].data).file_id
            # chunk_and_save_file(base[<<NameB>>].data).file_id
       /\ Cardinality(DOMAIN objects) = 5

\* C30: after a snapshot whose index was written, when one tracked file was
\* overwritten or deleted and nothing else changed, revert of that path,
\* and revert without paths, bring back the file's bytes as the snapshot
\* read them, and the status that follows reports no change.
C30_RevertRestores ==
  (/\ nsnap > 0
   /\ IndexCurrent
   /\ DOMAIN worktree \subseteq DOMAIN base
   /\ Cardinality(Rewritten \cup (DOMAIN base \ DOMAIN worktree)) = 1
   /\ \A p \in (DOMAIN base \cap DOMAIN worktree) \ Rewritten : worktree[p] = base[p])
    => \A p \in Rewritten \cup (DOMAIN base \ DOMAIN worktree) :
         \A file_paths \in {<<>>, <<p>>} :
           LET wt == revert_files(objects, head_ref, worktree, file_paths, clock) IN
           /\ p \in DOMAIN wt
           /\ wt[p].data = base[p].data
           /\ check_status(index, wt).ok
           /\ check_status(index, wt).changes = <<>>

(***************************************************************************)
(* Checkout.                                                               *)
(***************************************************************************)
\* The commit a checkout with this argument restores.
TargetCommit(commit_id) == IF commit_id = <<>> THEN head_ref ELSE commit_id

\* C31: a checkout that succeeds on the commit the last snapshot wrote leaves
\* every file of that snapshot in the working tree with the bytes the
\* snapshot read, and changes neither the tip nor the index.
C31_CheckoutRestores ==
  [][\A commit_id \in CheckoutArgs :
       (/\ Checkout(commit_id)
        /\ pc' = "idle"
        /\ nsnap > 0
        /\ TargetCommit(commit_id) = head_ref)
       => /\ \A p \in DOMAIN base :
               p \in DOMAIN worktree' /\ worktree'[p].data = base[p].data
          /\ head_ref' = head_ref
          /\ index' = index]_vars

(***************************************************************************)
(* The process.                                                            *)
(***************************************************************************)
\* C32: when the operation of the command returned an error (the process was
\* not killed), the exit code of the process is not 0.
C32_ExitCodeReflectsFailure ==
  (pc = "failed" /\ err # "killed") => main(FALSE).exit_code # 0

(***************************************************************************)
(* The token.                                                              *)
(***************************************************************************)
\* C33: a sync, clone or list-repos command that fails for want of a token
\* has opened no connection and sent no frame.
C33_NoTokenNoNetwork ==
  (pc = "failed" /\ err = "token") => (opened = 0 /\ wire = <<>>)

(***************************************************************************)
(* URLs.                                                                   *)
(***************************************************************************)
\* The TLS rule of the specification for a URL given by its parts: the scheme
\* is orbits or https, or the port is 443 or 8443.
TlsImplied(u) ==
  \/ u.scheme \in {ORBITS, HTTPS}
  \/ u.port \in {<<"4", "4", "3">>, <<"8", "4", "4", "3">>}

\* C34: OrbitUrl::parse of [scheme://]host[:port][/repository-path] succeeds;
\* use_tls is true exactly when the scheme is orbits or https or the port is
\* 443 or 8443; the port is the given port, else 443 with TLS and 8080
\* without; the repository is the path.
C34_TlsAndPort ==
  text.st = "parsed" =>
    LET u == text.parts IN
    /\ text.out.ok
    /\ text.out.use_tls = TlsImplied(u)
    /\ text.out.port = (IF u.port # <<>> THEN Decimal(u.port)
                        ELSE IF TlsImplied(u) THEN 443 ELSE 8080)
    /\ text.out.host = u.host
    /\ text.out.repository = u.path

\* s without one trailing occurrence of the suffix, when it ends with it.
strip_suffix(s, suffix) ==
  IF ends_with(s, suffix) THEN SubSeq(s, 1, Len(s) - Len(suffix)) ELSE s

\* The name the claim describes: the last segment of the URL, trailing
\* slashes ignored, without a trailing .git extension.
LastSegmentName(url) ==
  LET trimmed == trim_end_matches(url, <<"/">>) IN
  strip_suffix(After(trimmed, rfind(trimmed, "/")), DOT_GIT)

\* C36: extract_repo_name returns the last '/'-separated segment of the URL
\* (trailing '/' ignored) without a trailing ".git" extension, and fails when
\* that name is empty.
C36_RepoNameIsLastSegment ==
  text.st = "named" =>
    IF LastSegmentName(text.url) = <<>> THEN ~text.out.ok
    ELSE text.out.ok /\ text.out.name = LastSegmentName(text.url)

(***************************************************************************)
(* Repeated puts.                                                          *)
(***************************************************************************)
\* C35: a put of bytes that the preceding command has put already returns
\* the same id and leaves the store, at that id, as the first put left it.
C35_PutIdempotent ==
  [][\A q \in puts' : \A p \in puts :
       p.data = q.data
       => /\ q.id = p.id
          /\ (q.id \in DOMAIN objects') = (q.id \in DOMAIN objects)
          /\ (q.id \in DOMAIN objects => objects'[q.id] = objects[q.id])]_vars

(***************************************************************************)
(* History.                                                                *)
(***************************************************************************)
\* C37: between commands, in every state the repository can reach, the walk
\* of show_history from the tip ends.
C37_HistoryTerminates ==
  ~InSession => show_history(objects, head_ref).terminates

(***************************************************************************)
(* Status is read-only.                                                    *)
(***************************************************************************)
\* C38: a status check leaves the object store, the index and the tip as
\* they are.
C38_StatusReadOnly ==
  [][CheckStatus => (objects' = objects /\ index' = index /\ head_ref' = head_ref)]_vars

(***************************************************************************)
(* Download stores under the requested id.                                 *)
(***************************************************************************)
\* C39: a step of the download that stores the reply to Get, GetTree or
\* GetFile writes the store at the requested id and nowhere else.
C39_StoredUnderRequestedId ==
  [][(RecvCommit \/ RecvObject)
       => \A o \in DOMAIN objects' :
            (o \notin DOMAIN objects \/ objects'[o] # objects[o]) => o = RequestedId]_vars

(***************************************************************************)
(* The classifier during upload.                                           *)
(***************************************************************************)
\* A working tree with one file, whose bytes are the JSON text of a
\* directory without entries.
UploadTrees ==
  {[p \in {<<NameA>>} |-> [data |-> SerializeDirectory(<<>>), mtime |-> 0]]}

InitUpload ==
  /\ InitRepository
  /\ worktree \in UploadTrees
  /\ chan = NoTransfer
  /\ text = NoText

\* Snapshots and sessions on that working tree.
SpecUpload == InitUpload /\ [][Next]_vars

\* The ids save_snapshot wrote as chunks: the digests of the files' bytes.
ChunkIds == {hash_data(base[p].data) : p \in DOMAIN base}

\* C40: an object that the snapshot wrote as a chunk is announced as a chunk
\* when it is uploaded, and the closure walk takes no reference from it.
C40_ChunkClassifiedAsChunk ==
  /\ \A i \in Uploaded : wire[i].f.id \in ChunkIds => wire[i].f.otype = "chunk"
  /\ \A i \in DOMAIN upl :
       upl[i] \in ChunkIds
       => LET l == load_local_object(objects, upl[i]) IN
          l.ok => References(l.otype, l.data) = <<>>

====
